---- MODULE Spec2Model ----
(***************************************************************************)
(* Model of blazeapi: the path-pattern compiler and matcher (routing.py),  *)
(* the ordered Router, and the BlazeAPI application object (app.py):       *)
(* route registration, middleware registration and per-request dispatch.   *)
(*                                                                         *)
(* Strings are sequences of one-character strings, so that the template    *)
(* scanner and the compiled matcher can be modelled character by character.*)
(***************************************************************************)
EXTENDS Integers, Sequences, FiniteSets, TLC

(***************************************************************************)
(* Bounds of the model.                                                    *)
(***************************************************************************)
\* longest tail appended to a probe prefix when matching a single Route
MaxTail == 3
\* most routes the Router holds
MaxRoutes == 2
\* most middleware the application holds
MaxMiddleware == 1
\* most messages receive() delivers on the lifespan exchange
MaxMessages == 3

(***************************************************************************)
(* Characters and strings.                                                 *)
(***************************************************************************)
LowerSeq ==
  <<"a","b","c","d","e","f","g","h","i","j","k","l","m",
    "n","o","p","q","r","s","t","u","v","w","x","y","z">>

UpperSeq ==
  <<"A","B","C","D","E","F","G","H","I","J","K","L","M",
    "N","O","P","Q","R","S","T","U","V","W","X","Y","Z">>

DigitSeq == <<"0","1","2","3","4","5","6","7","8","9">>

Range(f) == {f[i] : i \in DOMAIN f}

\* \d of the re module, restricted to ASCII
Digit == Range(DigitSeq)

\* \w of the re module, restricted to ASCII
WordChar == Range(LowerSeq) \cup Range(UpperSeq) \cup Digit \cup {"_"}

HexChar == Digit \cup {"a","b","c","d","e","f","A","B","C","D","E","F"}

DigitVal(c) == (CHOOSE i \in DOMAIN DigitSeq : DigitSeq[i] = c) - 1

\* str.upper() on one ASCII character
UpperChar(c) ==
  IF \E i \in DOMAIN LowerSeq : LowerSeq[i] = c
  THEN UpperSeq[CHOOSE i \in DOMAIN LowerSeq : LowerSeq[i] = c]
  ELSE c

\* str.upper()
Upper(s) == [i \in DOMAIN s |-> UpperChar(s[i])]

AllIn(s, S) == \A i \in DOMAIN s : s[i] \in S

SetMax(S) == CHOOSE x \in S : \A y \in S : y <= x

\* s[a:b] of Python turned into 1-based inclusive positions a..b
Slice(s, a, b) == SubSeq(s, a, b)

EmptyMap == [x \in {} |-> x]

(***************************************************************************)
(* routing.py: _PARAM_RE and _PARAM_TYPES.                                 *)
(***************************************************************************)
tStr == <<"s","t","r">>
tInt == <<"i","n","t">>
tFloat == <<"f","l","o","a","t">>
tUuid == <<"u","u","i","d">>
tPath == <<"p","a","t","h">>

\* the keys of _PARAM_TYPES
ParamTypeNames == {tStr, tInt, tFloat, tUuid, tPath}

\* the converter of each _PARAM_TYPES entry: str, int or float
ConverterOf(type_name) ==
  CASE type_name = tInt -> "int"
    [] type_name = tFloat -> "float"
    [] OTHER -> "str"

\* -?\d+
LexInt(w) ==
  LET d == IF Len(w) > 0 /\ w[1] = "-" THEN Tail(w) ELSE w
  IN Len(d) >= 1 /\ AllIn(d, Digit)

\* -?\d+(?:\.\d+)?
LexFloat(w) ==
  LET d == IF Len(w) > 0 /\ w[1] = "-" THEN Tail(w) ELSE w
      dots == {i \in DOMAIN d : d[i] = "."}
  IN \/ Len(d) >= 1 /\ AllIn(d, Digit)
     \/ \E k \in dots :
          /\ k > 1 /\ k < Len(d)
          /\ AllIn(Slice(d, 1, k - 1), Digit)
          /\ AllIn(Slice(d, k + 1, Len(d)), Digit)

\* [0-9a-fA-F]{8}-[0-9a-fA-F]{4}-[0-9a-fA-F]{4}-[0-9a-fA-F]{4}-[0-9a-fA-F]{12}
LexUuid(w) ==
  /\ Len(w) = 36
  /\ \A i \in 1..36 :
       IF i \in {9, 14, 19, 24} THEN w[i] = "-" ELSE w[i] \in HexChar

\* [^/]+ : a negated class also accepts a newline
LexStr(w) == Len(w) >= 1 /\ \A i \in DOMAIN w : w[i] # "/"

\* .+ : the dot accepts everything but a newline (no DOTALL flag)
LexPath(w) == Len(w) >= 1 /\ \A i \in DOMAIN w : w[i] # "\n"

\* does the whole of w fit the regex of the _PARAM_TYPES entry type_name
Lex(type_name, w) ==
  CASE type_name = tInt -> LexInt(w)
    [] type_name = tFloat -> LexFloat(w)
    [] type_name = tUuid -> LexUuid(w)
    [] type_name = tPath -> LexPath(w)
    [] OTHER -> LexStr(w)

RECURSIVE NatOf(_)
\* the value of a run of decimal digits
NatOf(d) ==
  IF Len(d) = 0 THEN 0
  ELSE 10 * NatOf(Slice(d, 1, Len(d) - 1)) + DigitVal(d[Len(d)])

\* int(value) on a string of the form -?\d+
IntOf(w) == IF w[1] = "-" THEN 0 - NatOf(Tail(w)) ELSE NatOf(w)

RECURSIVE StripZeros(_)
StripZeros(d) ==
  IF Len(d) > 0 /\ d[Len(d)] = "0" THEN StripZeros(Slice(d, 1, Len(d) - 1))
  ELSE d

\* float(value) on a string of the form -?\d+(?:\.\d+)? : the decimal
\* number mant / 10^exp with no trailing fractional zero
FloatOf(w) ==
  LET neg == w[1] = "-"
      d == IF neg THEN Tail(w) ELSE w
      dots == {i \in DOMAIN d : d[i] = "."}
      ip == IF dots = {} THEN d ELSE Slice(d, 1, (CHOOSE k \in dots : TRUE) - 1)
      fp == IF dots = {} THEN <<>>
            ELSE StripZeros(Slice(d, (CHOOSE k \in dots : TRUE) + 1, Len(d)))
      m == NatOf(ip \o fp)
  IN [mant |-> IF neg THEN 0 - m ELSE m, exp |-> Len(fp)]

\* self._converters[name](value)
Convert(conv, raw) ==
  CASE conv = "int" -> [t |-> "int", v |-> IntOf(raw)]
    [] conv = "float" -> [t |-> "float", v |-> FloatOf(raw)]
    [] OTHER -> [t |-> "str", v |-> raw]

\* end of the maximal run of \w characters of t that starts at position i
\* (the position after the run; i itself when t[i] is no word character)
RECURSIVE WordEnd(_, _)
WordEnd(t, i) ==
  IF i <= Len(t) /\ t[i] \in WordChar THEN WordEnd(t, i + 1) ELSE i

\* _PARAM_RE.match at position i of t: \{(\w+)(?::(\w+))?\}
PlaceholderAt(t, i) ==
  IF i > Len(t) \/ t[i] # "{" THEN [found |-> FALSE]
  ELSE
    LET j == WordEnd(t, i + 1)
        k == WordEnd(t, j + 1)
    IN IF j = i + 1 \/ j > Len(t) THEN [found |-> FALSE]
       ELSE IF t[j] = "}"
         THEN [found |-> TRUE, name |-> Slice(t, i + 1, j - 1),
               typed |-> FALSE, type_name |-> tStr, end |-> j + 1]
       ELSE IF t[j] = ":" /\ k > j + 1 /\ k <= Len(t) /\ t[k] = "}"
         THEN [found |-> TRUE, name |-> Slice(t, i + 1, j - 1),
               typed |-> TRUE, type_name |-> Slice(t, j + 1, k - 1),
               end |-> k + 1]
       ELSE [found |-> FALSE]

\* a regex compiler that lets a group name be defined twice
GroupNamesOkAllowingRepeats(names) ==
  \A i \in DOMAIN names : names[i][1] \notin Digit

\* can re.compile take the group names: each a Python identifier, none twice
GroupNamesOk(names) ==
  /\ \A i \in DOMAIN names : names[i][1] \notin Digit
  /\ \A i, j \in DOMAIN names : i # j => names[i] # names[j]

LitPart(text) == [kind |-> "lit", text |-> text, name |-> <<>>, regex |-> <<>>]

SlotPart(name, regex) == [kind |-> "slot", text |-> <<>>, name |-> name, regex |-> regex]

RECURSIVE Scan(_, _, _, _, _, _)
\* the finditer loop of _compile_pattern, from position pos of path
Scan(path, pos, last_end, parts, names, converters) ==
  IF pos > Len(path)
  THEN IF GroupNamesOk(names)
       THEN [ok |-> TRUE, error |-> "none", token |-> <<>>,
             parts |-> Append(parts, LitPart(Slice(path, last_end, Len(path)))),
             converters |-> converters]
       ELSE [ok |-> FALSE, error |-> "re.error", token |-> <<>>,
             parts |-> <<>>, converters |-> EmptyMap]
  ELSE
    LET m == PlaceholderAt(path, pos)
    IN IF ~m.found THEN Scan(path, pos + 1, last_end, parts, names, converters)
       ELSE IF m.type_name \notin ParamTypeNames
         THEN [ok |-> FALSE, error |-> "ValueError", token |-> m.type_name,
               parts |-> <<>>, converters |-> EmptyMap]
       ELSE Scan(path, m.end, m.end,
                 parts \o <<LitPart(Slice(path, last_end, pos - 1)),
                            SlotPart(m.name, m.type_name)>>,
                 Append(names, m.name),
                 (m.name :> ConverterOf(m.type_name)) @@ converters)

RECURSIVE ScanDefaulting(_, _, _, _, _, _)
ScanDefaulting(path, pos, last_end, parts, names, converters) ==
  IF pos > Len(path)
  THEN IF GroupNamesOk(names)
       THEN [ok |-> TRUE, error |-> "none", token |-> <<>>,
             parts |-> Append(parts, LitPart(Slice(path, last_end, Len(path)))),
             converters |-> converters]
       ELSE [ok |-> FALSE, error |-> "re.error", token |-> <<>>,
             parts |-> <<>>, converters |-> EmptyMap]
  ELSE
    LET m == PlaceholderAt(path, pos)
        tn == IF m.type_name \in ParamTypeNames THEN m.type_name ELSE tStr
    IN IF ~m.found
       THEN ScanDefaulting(path, pos + 1, last_end, parts, names, converters)
       ELSE ScanDefaulting(path, m.end, m.end,
                           parts \o <<LitPart(Slice(path, last_end, pos - 1)),
                                      SlotPart(m.name, tn)>>,
                           Append(names, m.name),
                           (m.name :> ConverterOf(tn)) @@ converters)

\* a compiler that falls back to str for a type token it does not know
CompilePatternDefaulting(path) == ScanDefaulting(path, 1, 1, <<>>, <<>>, EmptyMap)

\* _compile_pattern(path)
CompilePattern(path) == Scan(path, 1, 1, <<>>, <<>>, EmptyMap)

\* the $ of the compiled regex at position pos of s: the end of the string,
\* or just before a newline that is the last character
AtDollar(s, pos) ==
  \/ pos = Len(s) + 1
  \/ pos = Len(s) /\ s[pos] = "\n"

RECURSIVE MatchParts(_, _, _, _)
\* the compiled regex "^" + parts + "$" run by re.match from position pos of
\* s with parts k.. still to match; a slot is greedy and backtracks
MatchParts(parts, k, s, pos) ==
  IF k > Len(parts)
  THEN [ok |-> AtDollar(s, pos), groups |-> EmptyMap]
  ELSE IF parts[k].kind = "lit"
  THEN LET n == Len(parts[k].text)
       IN IF pos + n - 1 <= Len(s) /\ Slice(s, pos, pos + n - 1) = parts[k].text
          THEN MatchParts(parts, k + 1, s, pos + n)
          ELSE [ok |-> FALSE, groups |-> EmptyMap]
  ELSE LET fits == {L \in 1..(Len(s) - pos + 1) :
                      /\ Lex(parts[k].regex, Slice(s, pos, pos + L - 1))
                      /\ MatchParts(parts, k + 1, s, pos + L).ok}
       IN IF fits = {} THEN [ok |-> FALSE, groups |-> EmptyMap]
          ELSE LET L == SetMax(fits)
                   rest == MatchParts(parts, k + 1, s, pos + L)
               IN [ok |-> TRUE,
                   groups |-> (parts[k].name :> Slice(s, pos, pos + L - 1))
                                @@ rest.groups]

\* Route(method, path, handler): the Route object, or the error raised by
\* _compile_pattern / re.compile
NewRoute(method, path, handler) ==
  LET Made(c) ==
        [ok |-> c.ok, error |-> c.error, token |-> c.token,
         route |-> [method |-> Upper(method), path |-> path, handler |-> handler,
                    pattern |-> c.parts, converters |-> c.converters]]
  IN Made(CompilePattern(path))

\* Route.match(path): None, or the converted parameters
RouteMatch(route, path) ==
  LET Converted(m) ==
        IF ~m.ok THEN [found |-> FALSE, params |-> EmptyMap]
        ELSE [found |-> TRUE,
              params |-> [n \in DOMAIN m.groups |->
                            Convert(route.converters[n], m.groups[n])]]
  IN Converted(MatchParts(route.pattern, 1, path, 1))

\* Router.add_route(method, path, handler) on the route list rs: the Route is
\* built first, so nothing is appended when its construction raises
AddRoute(rs, method, path, handler) ==
  LET Appended(r) ==
        [ok |-> r.ok, error |-> r.error, token |-> r.token,
         routes |-> IF r.ok THEN Append(rs, r.route) ELSE rs]
  IN Appended(NewRoute(method, path, handler))

NoMatch == [found |-> FALSE, index |-> 0, params |-> EmptyMap]

RECURSIVE MatchLoop(_, _, _, _)
\* the for loop of Router.match from the i-th route on; index stands for the
\* identity of the Route object returned
MatchLoop(rs, i, method, path) ==
  IF i > Len(rs) THEN NoMatch
  ELSE IF rs[i].method # method THEN MatchLoop(rs, i + 1, method, path)
  ELSE LET Tried(params) ==
             IF params.found
             THEN [found |-> TRUE, index |-> i, params |-> params.params]
             ELSE MatchLoop(rs, i + 1, method, path)
       IN Tried(RouteMatch(rs[i], path))

\* a lookup in which the route registered last wins
RouterMatchLastWins(rs, method, path) ==
  LET c == {i \in DOMAIN rs :
              rs[i].method = Upper(method) /\ RouteMatch(rs[i], path).found}
  IN IF c = {} THEN NoMatch
     ELSE [found |-> TRUE, index |-> SetMax(c),
           params |-> RouteMatch(rs[SetMax(c)], path).params]

\* a lookup that compares the method as given
RouterMatchCaseSensitive(rs, method, path) == MatchLoop(rs, 1, method, path)

\* Router.match(method, path)
RouterMatch(rs, method, path) == MatchLoop(rs, 1, Upper(method), path)

(***************************************************************************)
(* Handlers: the callables an application registers.  is_coroutine and     *)
(* params are what asyncio.iscoroutinefunction and inspect.signature       *)
(* report; ret is the entry "return" of get_type_hints ("missing" when the *)
(* handler has no return annotation); introspectable is FALSE for an       *)
(* object on which inspect.signature and get_type_hints raise TypeError.   *)
(* order lists the parameters as inspect.signature does, hints holds the   *)
(* entry of get_type_hints for each annotated parameter other than         *)
(* request, whose own annotation no code looks at.  Parameter names other  *)
(* than request are written with one letter (u for user_id, d for data, p  *)
(* for page, q for query).                                                 *)
(***************************************************************************)
\* typing.get_type_hints on one annotation: the annotation None is reported
\* as the class NoneType, every other annotation as the object it names
TypeHint(annotation) == IF annotation = "None" THEN "NoneType" ELSE annotation

\* a function definition "def f(order...) -> returns" with the annotations
\* as written ("missing" for a return that is not annotated)
Def(is_coroutine, order, annotations, returns) ==
  [introspectable |-> TRUE, is_coroutine |-> is_coroutine, order |-> order,
   annotations |-> annotations, returns |-> returns]

\* the handlers as their definitions are written: h1..h4 are the handlers
\* of the served application, the others the handlers of the strict-mode
\* tests and their variants with a return annotation the validator takes
Declarations ==
  [h1 |-> Def(TRUE, <<"request", "i">>, EmptyMap, "JSONResponse"),
   h2 |-> Def(FALSE, <<"request", "i">>, EmptyMap, "missing"),
   h3 |-> [introspectable |-> FALSE, is_coroutine |-> FALSE, order |-> <<>>,
           annotations |-> EmptyMap, returns |-> "missing"],
   h4 |-> Def(FALSE, <<>>, EmptyMap, "missing"),
   \* def handler(request: object): ...
   no_annotation |-> Def(FALSE, <<"request">>, EmptyMap, "missing"),
   \* def handler(request: object) -> dict, -> list, ...
   ret_dict |-> Def(FALSE, <<"request">>, EmptyMap, "dict"),
   ret_list |-> Def(FALSE, <<"request">>, EmptyMap, "list"),
   ret_str |-> Def(FALSE, <<"request">>, EmptyMap, "str"),
   ret_int |-> Def(FALSE, <<"request">>, EmptyMap, "int"),
   ret_bool |-> Def(FALSE, <<"request">>, EmptyMap, "bool"),
   ret_optional |-> Def(FALSE, <<"request">>, EmptyMap, "typing.Optional[dict]"),
   ret_none |-> Def(FALSE, <<"request">>, EmptyMap, "None"),
   ret_response |-> Def(FALSE, <<"request">>, EmptyMap, "Response"),
   ret_json |-> Def(FALSE, <<"request">>, EmptyMap, "JSONResponse"),
   ret_model |-> Def(FALSE, <<"request">>, EmptyMap, "UserModel"),
   \* def handler(request: object, user_id) -> None: ...
   untyped_path_param |->
     Def(FALSE, <<"request", "u">>, EmptyMap, "None"),
   \* def handler(request: object, data: dict) -> None: ...
   dict_body_param |->
     Def(FALSE, <<"request", "d">>, ("d" :> "dict"), "None"),
   \* def handler(request: object, page: int) -> None: ...
   primitive_non_path_param |->
     Def(FALSE, <<"request", "p">>, ("p" :> "int"), "None"),
   \* def handler(request: object, query: QueryModel) -> None: ...
   query_model_param |->
     Def(FALSE, <<"request", "q">>, ("q" :> "QueryModel"), "None"),
   \* def handler(request: object, user_id: int) -> None: ...
   typed_path_param |->
     Def(FALSE, <<"request", "u">>, ("u" :> "int"), "None"),
   \* def handler(request: object, user_id: int, data: UserModel) -> None: ...
   combined_valid |->
     Def(FALSE, <<"request", "u", "d">>,
         ("u" :> "int") @@ ("d" :> "UserModel"), "None"),
   \* the same six with -> JSONResponse
   json_untyped_path_param |->
     Def(FALSE, <<"request", "u">>, EmptyMap, "JSONResponse"),
   json_dict_body_param |->
     Def(FALSE, <<"request", "d">>, ("d" :> "dict"), "JSONResponse"),
   json_primitive_non_path_param |->
     Def(FALSE, <<"request", "p">>, ("p" :> "int"), "JSONResponse"),
   json_query_model_param |->
     Def(FALSE, <<"request", "q">>, ("q" :> "QueryModel"),
         "JSONResponse"),
   json_typed_path_param |->
     Def(FALSE, <<"request", "u">>, ("u" :> "int"), "JSONResponse"),
   json_combined_valid |->
     Def(FALSE, <<"request", "u", "d">>,
         ("u" :> "int") @@ ("d" :> "UserModel"), "JSONResponse"),
   \* def handler(request: object, page: int, user_id) -> JSONResponse: ...
   json_primitive_then_untyped |->
     Def(FALSE, <<"request", "p", "u">>, ("p" :> "int"),
         "JSONResponse"),
   \* def handler(request: object, page: None) -> UserModel: ...
   model_none_param |->
     Def(FALSE, <<"request", "p">>, ("p" :> "None"), "UserModel")]

HandlerTable ==
  [f \in DOMAIN Declarations |->
     [introspectable |-> Declarations[f].introspectable,
      is_coroutine |-> Declarations[f].is_coroutine,
      params |-> Range(Declarations[f].order),
      ret |-> TypeHint(Declarations[f].returns),
      order |-> Declarations[f].order,
      hints |-> [p \in DOMAIN Declarations[f].annotations |->
                   TypeHint(Declarations[f].annotations[p])]]]

\* the handlers registered through the decorators
Handlers == {"h1", "h2", "h3"}

(***************************************************************************)
(* State.                                                                  *)
(***************************************************************************)
VARIABLES
  \* a Route built and matched on its own: the template, the path, the
  \* outcome of Route(...) and the result of Route.match
  probe,
  \* Router.routes
  routes,
  \* BlazeAPI._handler_meta
  handler_meta,
  \* BlazeAPI._middleware
  middleware,
  \* BlazeAPI._app: the cached chain, or NoApp
  app,
  \* BlazeAPI.strict and BlazeAPI.debug
  strict,
  debug,
  \* the HTTP exchange being served
  exch,
  \* the most recent call made on the Router or the application, and how
  \* it ended
  last,
  \* the HTTP exchanges of an application that serves several at a time,
  \* one per task of the event loop
  tasks,
  \* how many times _build_app has run since the last add_middleware (or
  \* since construction): 0, 1, or 2 for more than once
  composed,
  \* the lifespan exchange: what receive() has delivered to
  \* _handle_lifespan, what it has sent, and whether it has returned
  lifespan

vars ==
  <<probe, routes, handler_meta, middleware, app, strict, debug, exch, last,
    tasks, composed, lifespan>>

appVars ==
  <<routes, handler_meta, middleware, app, strict, debug, exch, last,
    tasks, composed, lifespan>>

(***************************************************************************)
(* Inputs of the single-Route specification.                               *)
(***************************************************************************)
\* "/a"
T_static == <<"/","a">>
\* "/a/{n}"
T_str == <<"/","a","/","{","n","}">>
\* "/a/{n:int}"
T_int == <<"/","a","/","{","n",":">> \o tInt \o <<"}">>
\* "/{i:int}/a"
T_intmid == <<"/","{","i",":">> \o tInt \o <<"}","/","a">>
\* "/a/{n:float}"
T_float == <<"/","a","/","{","n",":">> \o tFloat \o <<"}">>
\* "/a/{n:path}"
T_path == <<"/","a","/","{","n",":">> \o tPath \o <<"}">>
\* "/a/{n:uuid}"
T_uuid == <<"/","a","/","{","n",":">> \o tUuid \o <<"}">>
\* "/{n}/{i:int}"
T_two == <<"/","{","n","}","/","{","i",":">> \o tInt \o <<"}">>
\* "/a/{n:bogus}"
T_bogus == <<"/","a","/","{","n",":","b","o","g","u","s","}">>
\* "/{n}/{n:int}"
T_dup == <<"/","{","n","}","/","{","n",":">> \o tInt \o <<"}">>
\* "/{7:int}"
T_badname == <<"/","{","7",":">> \o tInt \o <<"}">>
\* "/a/{n:}" : no placeholder for _PARAM_RE, a literal
T_literal == <<"/","a","/","{","n",":","}">>

ProbeTemplates ==
  {T_static, T_str, T_int, T_intmid, T_float, T_path, T_uuid, T_two,
   T_bogus, T_dup, T_badname, T_literal}

TailChars == {"/", "a", "7", "-", ".", "\n"}

Tails == UNION {[1..n -> TailChars] : n \in 0..MaxTail}

ProbePrefixes == {<<>>, <<"/">>, <<"/","a","/">>}

\* "7a7a7a7a-7a7a-7a7a-7a7a-7a7a7a7a7a7a"
UuidText ==
  <<"7","a","7","a","7","a","7","a","-","7","a","7","a","-","7","a","7","a",
    "-","7","a","7","a","-","7","a","7","a","7","a","7","a","7","a","7","a">>

ProbePaths ==
  {pre \o tl : pre \in ProbePrefixes, tl \in Tails}
    \cup {<<"/","a","/">> \o UuidText, <<"/","a","/">> \o UuidText \o <<"\n">>,
          <<"/","a","/">> \o Tail(UuidText), T_literal}

NoRoute == [ok |-> FALSE, error |-> "unbuilt", token |-> <<>>,
            route |-> [method |-> <<>>, path |-> <<>>, handler |-> "none",
                       pattern |-> <<>>, converters |-> EmptyMap]]

NoResult == [found |-> FALSE, params |-> EmptyMap]

NoApp == [built |-> FALSE, chain |-> <<>>]

IdleExch == [pc |-> "idle"]

NoCall == [op |-> "none"]

\* the tasks of the event loop that serve HTTP exchanges
Tasks == {"t1", "t2"}

IdleTasks == [t \in Tasks |-> IdleExch]

NoLifespan == [pc |-> "none", received |-> <<>>, sent |-> <<>>]

\* BlazeAPI.__init__ with strict and debug left at their defaults
AppInit ==
  /\ routes = <<>>
  /\ handler_meta = EmptyMap
  /\ middleware = <<>>
  /\ app = NoApp
  /\ strict = FALSE
  /\ debug = FALSE
  /\ exch = IdleExch
  /\ last = NoCall
  /\ tasks = IdleTasks
  /\ composed = 0
  /\ lifespan = NoLifespan

InitMatch ==
  /\ probe \in [pc : {"input"}, template : ProbeTemplates, path : ProbePaths,
                made : {NoRoute}, result : {NoResult}]
  /\ AppInit

\* route = Route("GET", template, handler)
ConstructRoute ==
  /\ probe.pc = "input"
  /\ probe' = [probe EXCEPT !.pc = "constructed",
                            !.made = NewRoute(<<"G","E","T">>, probe.template, "h1")]
  /\ UNCHANGED appVars

\* result = route.match(path)
ProbeMatch ==
  /\ probe.pc = "constructed"
  /\ probe.made.ok
  /\ probe' = [probe EXCEPT !.pc = "matched",
                            !.result = RouteMatch(probe.made.route, probe.path)]
  /\ UNCHANGED appVars

NextMatch == ConstructRoute \/ ProbeMatch

SpecMatch == InitMatch /\ [][NextMatch]_vars

(***************************************************************************)
(* The Router on its own (SpecRouter): add_route and match called with     *)
(* methods in any letter case.                                             *)
(***************************************************************************)
mGET == <<"G","E","T">>
mPOST == <<"P","O","S","T">>

RouterMethods == {mGET, <<"g","e","t">>, mPOST}

\* "/{n}"
R_str == <<"/","{","n","}">>
\* "/{i:int}"
R_int == <<"/","{","i",":">> \o tInt \o <<"}">>
\* "/{v:bogus}"
R_bogus == <<"/","{","v",":","b","o","g","u","s","}">>
\* "/{n}/{n}"
R_dup == <<"/","{","n","}","/","{","n","}">>

RouterTemplates == {R_str, R_int, R_bogus, R_dup}

\* "/a", "/7", "/"
RouterPaths == {<<"/","a">>, <<"/","7">>, <<"/">>}

RouterHandlers == {"h1", "h2"}

InitRouter ==
  /\ probe = [pc |-> "unused"]
  /\ AppInit

\* router.add_route(method, path, handler)
RouterAddRoute(method, path, handler) ==
  \E r \in {AddRoute(routes, method, path, handler)} :
     /\ r.ok => Len(routes) < MaxRoutes
     /\ routes' = r.routes
     /\ last' = [op |-> "add_route", method |-> method, path |-> path,
                 handler |-> handler, error |-> r.error, token |-> r.token]
     /\ UNCHANGED <<probe, handler_meta, middleware, app, strict, debug, exch,
                  tasks, composed, lifespan>>

\* router.match(method, path)
RouterMatchCall(method, path) ==
  /\ last' = [op |-> "match", method |-> method, path |-> path,
              result |-> RouterMatch(routes, method, path)]
  /\ UNCHANGED <<probe, routes, handler_meta, middleware, app, strict, debug, exch,
               tasks, composed, lifespan>>

NextRouter ==
  \/ \E method \in RouterMethods, path \in RouterTemplates, handler \in RouterHandlers :
       RouterAddRoute(method, path, handler)
  \/ \E method \in RouterMethods, path \in RouterPaths :
       RouterMatchCall(method, path)

SpecRouter == InitRouter /\ [][NextRouter]_vars

(***************************************************************************)
(* The BlazeAPI application (Spec): registration through the decorators,   *)
(* add_middleware, and the serving of one HTTP exchange at a time.         *)
(***************************************************************************)
\* _validate_return_type(handler): the exception it raises, or "none"
ValidateReturnType(handler) ==
  LET h == HandlerTable[handler]
  IN IF ~h.introspectable THEN "TypeError"
     ELSE IF h.ret = "missing" THEN "TypeError"
     ELSE IF h.ret \notin {"Response", "JSONResponse"} THEN "TypeError"
     ELSE "none"

\* _HandlerMeta(handler)
HandlerMeta(handler) ==
  LET h == HandlerTable[handler]
  IN [handler |-> handler,
      is_coroutine |-> h.is_coroutine,
      wants_request |-> "request" \in h.params,
      param_names |-> h.params \ {"request"}]

\* a decorator that adds the route before it validates the handler
RouteDecoratorValidatingLate(rs, hm, is_strict, method, path, handler) ==
  LET Steps(v, r) ==
        IF ~r.ok
        THEN [stage |-> "compile", error |-> r.error, token |-> r.token,
              routes |-> rs, handler_meta |-> hm]
        ELSE IF v # "none"
        THEN [stage |-> "validate", error |-> v, token |-> <<>>,
              routes |-> r.routes, handler_meta |-> hm]
        ELSE IF ~HandlerTable[handler].introspectable
        THEN [stage |-> "meta", error |-> "TypeError", token |-> <<>>,
              routes |-> r.routes, handler_meta |-> hm]
        ELSE [stage |-> "done", error |-> "none", token |-> <<>>,
              routes |-> r.routes,
              handler_meta |-> (handler :> HandlerMeta(handler)) @@ hm]
  IN Steps(IF is_strict THEN ValidateReturnType(handler) ELSE "none",
           AddRoute(rs, method, path, handler))

\* the decorator returned by BlazeAPI._route(method, path), applied to
\* handler on an application whose state is (rs, hm): the state it leaves
\* and the exception it raises.  stage tells where it stopped.
RouteDecorator(rs, hm, is_strict, method, path, handler) ==
  LET Steps(v, r) ==
        IF v # "none"
        THEN [stage |-> "validate", error |-> v, token |-> <<>>,
              routes |-> rs, handler_meta |-> hm]
        ELSE IF ~r.ok
        THEN [stage |-> "compile", error |-> r.error, token |-> r.token,
              routes |-> rs, handler_meta |-> hm]
        ELSE IF ~HandlerTable[handler].introspectable
        THEN [stage |-> "meta", error |-> "TypeError", token |-> <<>>,
              routes |-> r.routes, handler_meta |-> hm]
        ELSE [stage |-> "done", error |-> "none", token |-> <<>>,
              routes |-> r.routes,
              handler_meta |-> (handler :> HandlerMeta(handler)) @@ hm]
  IN Steps(IF is_strict THEN ValidateReturnType(handler) ELSE "none",
           AddRoute(rs, method, path, handler))

RECURSIVE WrapFrom(_, _, _)
\* the loop of _build_app over reversed(self._middleware): mws[k] wraps what
\* has been composed so far; a chain lists its middleware outermost first
\* and ends, implicitly, in _handle
WrapFrom(mws, k, chain) ==
  IF k = 0 THEN chain ELSE WrapFrom(mws, k - 1, <<mws[k]>> \o chain)

\* a composition in which the middleware registered last ends up outermost
BuildAppInRegistrationOrder(mws) ==
  [i \in 1..Len(mws) |-> mws[Len(mws) + 1 - i]]

\* BlazeAPI._build_app()
BuildApp(mws) == WrapFrom(mws, Len(mws), <<>>)

\* one more run of _build_app after n runs
Composing(n) == IF n = 0 THEN 1 ELSE 2

\* the exception classes caught by "except Exception"
ExceptionFamily == {"RuntimeError", "TypeError", "KeyError"}

\* exception classes that derive from BaseException only
BaseOnlyFamily == {"SystemExit"}

\* Response(...).send(send): response-start, then response-body
ResponseSend(status, media, body) ==
  <<[type |-> "http.response.start", status |-> status, media |-> media],
    [type |-> "http.response.body", body |-> body]>>

\* JSONResponse(content, status_code).send(send)
JSONResponseSend(content, status) ==
  ResponseSend(status, "application/json", [json |-> content])

NotFoundBody == [detail |-> "Not Found"]

\* a not-found response built without its status_code argument
NotFoundResponseDefaultStatus == JSONResponseSend(NotFoundBody, 200)

\* JSONResponse({"detail": "Not Found"}, status_code=404).send(send)
NotFoundResponse == JSONResponseSend(NotFoundBody, 404)

\* a 500 body that never carries the traceback
ErrorBodyWithoutTraceback(is_debug, exc) == [detail |-> "Internal Server Error"]

\* the body of the 500 response built in the except clause of _handle
ErrorBody(is_debug, exc) ==
  IF is_debug
  THEN [detail |-> "Internal Server Error", traceback |-> exc]
  ELSE [detail |-> "Internal Server Error"]

\* a str holding the lone surrogate U+D800
LoneSurrogate == <<"\\ud800">>

\* what a handler may return: a Response of its own, a dict, None, and the
\* str "\ud800"
ReturnValues ==
  {[kind |-> "Response", status |-> 201, body |-> "made"],
   [kind |-> "dict", value |-> "d"],
   [kind |-> "other", type |-> "NoneType", chars |-> <<>>],
   [kind |-> "other", type |-> "str", chars |-> LoneSurrogate]}

\* str(response) for a value that is not a Response, a dict or a list
Str(value) ==
  IF value.type = "NoneType" THEN <<"N","o","n","e">>
  ELSE value.chars

\* text.encode("utf-8"): a surrogate code point has no UTF-8 encoding
EncodeUtf8(text) ==
  IF \E i \in DOMAIN text : text[i] = LoneSurrogate[1]
  THEN [error |-> "UnicodeEncodeError", bytes |-> <<>>]
  ELSE [error |-> "none", bytes |-> text]

\* _send_response(response, send): the messages sent, and the exception
\* raised while the plain body is built
SendResponse(response) ==
  LET Plain(encoded) ==
        IF encoded.error # "none"
        THEN [error |-> encoded.error, sent |-> <<>>]
        ELSE [error |-> "none",
              sent |-> ResponseSend(200, "none", [bytes |-> encoded.bytes])]
  IN IF response.kind = "Response"
     THEN [error |-> "none",
           sent |-> ResponseSend(response.status, "none", response.body)]
     ELSE IF response.kind \in {"dict", "list"}
     THEN [error |-> "none", sent |-> JSONResponseSend(response.value, 200)]
     ELSE Plain(EncodeUtf8(Str(response)))

\* keyword arguments that hold every resolved path parameter
KwargsOfEveryPathParam(meta, path_params) ==
  [name \in {n[1] : n \in DOMAIN path_params}
            \cup (IF meta.wants_request THEN {"request"} ELSE {})
     |-> IF name = "request" /\ meta.wants_request
         THEN [t |-> "Request"]
         ELSE path_params[<<name>>]]

\* the keyword arguments _invoke builds for a handler with metadata meta
Kwargs(meta, path_params) ==
  [name \in {n \in meta.param_names : <<n>> \in DOMAIN path_params}
            \cup (IF meta.wants_request THEN {"request"} ELSE {})
     |-> IF name = "request" /\ meta.wants_request
         THEN [t |-> "Request"]
         ELSE path_params[<<name>>]]

\* a dispatcher that calls every handler on the event loop
RunsOnLoopAlways(meta) == "loop"

\* where _invoke runs the handler: a coroutine function is awaited on the
\* event loop, any other callable goes to the worker pool
RunsOn(meta) == IF meta.is_coroutine THEN "loop" ELSE "pool"

\* handler(**kwargs) binds: every declared parameter receives a value
Binds(handler, kwargs) == HandlerTable[handler].params \subseteq DOMAIN kwargs

AppTemplates == {T_static, R_int, R_bogus, R_dup}

\* "/a", "/7"
AppPaths == {<<"/","a">>, <<"/","7">>}

Scopes ==
  [type : {"http"}, method : {mGET}, path : AppPaths]
    \cup [type : {"http"}, method : {mPOST}, path : {<<"/","7">>}]
    \cup [type : {"websocket"}, method : {mGET}, path : {<<"/","a">>}]

Middlewares == {"M1"}

Init ==
  /\ probe = [pc |-> "unused"]
  /\ routes = <<>>
  /\ handler_meta = EmptyMap
  /\ middleware = <<>>
  /\ app = NoApp
  /\ strict \in BOOLEAN
  /\ debug \in BOOLEAN
  /\ exch = IdleExch
  /\ last = NoCall
  /\ tasks = IdleTasks
  /\ composed = 0
  /\ lifespan = NoLifespan

\* app.get(path)(handler)
Register(method, path, handler) ==
  \E d \in {RouteDecorator(routes, handler_meta, strict, method, path, handler)} :
     /\ Len(d.routes) <= MaxRoutes
     /\ routes' = d.routes
     /\ handler_meta' = d.handler_meta
     /\ last' = [op |-> "register", path |-> path, stage |-> d.stage,
                 error |-> d.error, token |-> d.token]
     /\ UNCHANGED <<probe, middleware, app, strict, debug, exch, tasks, composed,
                  lifespan>>

\* an add_middleware that leaves the cached chain in place
AddMiddlewareKeepingChain(mw, limit) ==
  /\ Len(middleware) < limit
  /\ middleware' = Append(middleware, mw)
  /\ last' = [op |-> "add_middleware"]
  /\ UNCHANGED <<probe, routes, handler_meta, app, strict, debug, exch, tasks,
                 composed, lifespan>>

\* app.add_middleware(mw), on an application that holds fewer than limit
\* middleware
AddMiddlewareUpTo(mw, limit) ==
  /\ Len(middleware) < limit
  /\ middleware' = Append(middleware, mw)
  /\ app' = NoApp
  /\ composed' = 0
  /\ last' = [op |-> "add_middleware"]
  /\ UNCHANGED <<probe, routes, handler_meta, strict, debug, exch, tasks,
                 lifespan>>

\* app.add_middleware(mw)
AddMiddleware(mw) == AddMiddlewareUpTo(mw, MaxMiddleware)

Exchange(pc, scope, chain, handler, kwargs, where, invoked, raised, escaped, sent) ==
  [pc |-> pc, scope |-> scope, chain |-> chain, handler |-> handler,
   kwargs |-> kwargs, where |-> where, invoked |-> invoked, raised |-> raised,
   escaped |-> escaped, sent |-> sent]

\* BlazeAPI._handle(scope, receive, send) up to the point where _invoke
\* awaits the handler, on the chain the exchange runs through
Handle(scope, chain) ==
  LET Done(handler, raised, sent) ==
        Exchange("done", scope, chain, handler, EmptyMap, "none", FALSE,
                 raised, "none", sent)
      Invoke(handler, meta, path_params) ==
        IF meta.is_coroutine /\ ~Binds(handler, Kwargs(meta, path_params))
        THEN Done(handler, "TypeError",
                  JSONResponseSend(ErrorBody(debug, "TypeError"), 500))
        ELSE Exchange("running", scope, chain, handler,
                      Kwargs(meta, path_params), RunsOn(meta),
                      FALSE, "none", "none", <<>>)
      Matched(handler, path_params) ==
        IF handler \notin DOMAIN handler_meta
        THEN Done(handler, "KeyError",
                  JSONResponseSend(ErrorBody(debug, "KeyError"), 500))
        ELSE Invoke(handler, handler_meta[handler], path_params)
      Dispatch(result) ==
        IF ~result.found THEN Done("none", "none", NotFoundResponse)
        ELSE Matched(routes[result.index].handler, result.params)
  IN IF scope.type # "http" THEN Done("none", "none", <<>>)
     ELSE Dispatch(RouterMatch(routes, scope.method, scope.path))

\* a __call__ that composes the chain for every exchange
AsgiCallComposingAlways(scope) ==
  \E chain \in {BuildApp(middleware)} :
     /\ exch.pc \in {"idle", "done"}
     /\ app' = [built |-> TRUE, chain |-> chain]
     /\ composed' = Composing(composed)
     /\ exch' = Handle(scope, chain)
     /\ last' = [op |-> "asgi", reused |-> FALSE]
     /\ UNCHANGED <<probe, routes, handler_meta, middleware, strict, debug,
                    tasks, lifespan>>

\* BlazeAPI.__call__(scope, receive, send) for a scope that is not a
\* lifespan scope: the chain is composed if none is cached, and the exchange
\* runs through it into _handle
AsgiCall(scope) ==
  \E chain \in {IF app.built THEN app.chain ELSE BuildApp(middleware)} :
     /\ exch.pc \in {"idle", "done"}
     /\ app' = [built |-> TRUE, chain |-> chain]
     /\ composed' = IF app.built THEN composed ELSE Composing(composed)
     /\ exch' = Handle(scope, chain)
     /\ last' = [op |-> "asgi", reused |-> app.built]
     /\ UNCHANGED <<probe, routes, handler_meta, middleware, strict, debug,
                    tasks, lifespan>>

\* a _handle without its try/except: the exception leaves it
RaisedUncaught(e, exc, invoked) ==
  [e EXCEPT !.pc = "done", !.invoked = invoked, !.raised = exc,
            !.escaped = exc]

\* the awaited handler raises exc: the except clause of _handle sends the
\* 500 response, or the exception leaves _handle
RaisedIn(e, exc, invoked) ==
  IF exc \in ExceptionFamily
  THEN [e EXCEPT !.pc = "done", !.invoked = invoked, !.raised = exc,
                 !.sent = JSONResponseSend(ErrorBody(debug, exc), 500)]
  ELSE [e EXCEPT !.pc = "done", !.invoked = invoked, !.raised = exc,
                 !.escaped = exc]

\* the same, for the exchange of an application that serves one at a time
Raised(exc, invoked) == RaisedIn(exch, exc, invoked)

\* the awaited handler returns response: _handle passes it to
\* _send_response
ReturnedIn(e, response) ==
  LET Sent(r) == [e EXCEPT !.pc = "done", !.invoked = TRUE,
                           !.escaped = r.error, !.sent = r.sent]
  IN Sent(SendResponse(response))

\* the handler, called on the loop or on the worker pool, returns response
HandlerReturns(response) ==
  /\ exch.pc = "running"
  /\ exch.where = "pool" => Binds(exch.handler, exch.kwargs)
  /\ exch' = ReturnedIn(exch, response)
  /\ last' = [op |-> "returned", response |-> response]
  /\ UNCHANGED <<probe, routes, handler_meta, middleware, app, strict, debug,
               tasks, composed, lifespan>>

\* the handler, called on the loop or on the worker pool, raises exc
HandlerRaises(exc) ==
  /\ exch.pc = "running"
  /\ exch.where = "pool" => Binds(exch.handler, exch.kwargs)
  /\ exch' = Raised(exc, TRUE)
  /\ last' = [op |-> "asgi"]
  /\ UNCHANGED <<probe, routes, handler_meta, middleware, app, strict, debug,
               tasks, composed, lifespan>>

\* the call handler(**kwargs) made on the worker pool does not bind
PoolCallFails ==
  /\ exch.pc = "running"
  /\ exch.where = "pool"
  /\ ~Binds(exch.handler, exch.kwargs)
  /\ exch' = Raised("TypeError", FALSE)
  /\ last' = [op |-> "asgi"]
  /\ UNCHANGED <<probe, routes, handler_meta, middleware, app, strict, debug,
               tasks, composed, lifespan>>

Next ==
  \/ \E path \in AppTemplates, handler \in Handlers :
       Register(mGET, path, handler)
  \/ \E mw \in Middlewares : AddMiddleware(mw)
  \/ \E scope \in Scopes : AsgiCall(scope)
  \/ \E response \in ReturnValues : HandlerReturns(response)
  \/ \E exc \in {"RuntimeError", "SystemExit"} : HandlerRaises(exc)
  \/ PoolCallFails

Spec == Init /\ [][Next]_vars

(***************************************************************************)
(* SpecServe: an application whose routes are registered before serving    *)
(* begins and which serves several HTTP exchanges at a time, each in a     *)
(* task of the event loop.                                                 *)
(***************************************************************************)
\* the registrations made before serving: app.get("/{i:int}")(h1),
\* app.post("/{i:int}")(h2), app.get("/{n}")(h4), app.post("/{n}")(h1)
ServedRegistrations ==
  <<[method |-> mGET, path |-> R_int, handler |-> "h1"],
    [method |-> mPOST, path |-> R_int, handler |-> "h2"],
    [method |-> mGET, path |-> R_str, handler |-> "h4"],
    [method |-> mPOST, path |-> R_str, handler |-> "h1"]>>

RECURSIVE Registered(_, _)
\* the route list and metadata table after the first k registrations of
\* regs on a new, non-strict application
Registered(regs, k) ==
  LET After(before) ==
        RouteDecorator(before.routes, before.handler_meta, FALSE,
                       regs[k].method, regs[k].path, regs[k].handler)
  IN IF k = 0 THEN [routes |-> <<>>, handler_meta |-> EmptyMap]
     ELSE After(Registered(regs, k - 1))

\* GET /7, POST /7, GET /a, POST /a, GET /
ServeScopes ==
  [type : {"http"}, method : {mGET, mPOST}, path : {<<"/","7">>, <<"/","a">>}]
    \cup {[type |-> "http", method |-> mGET, path |-> <<"/">>]}

ServeReturnValues == {[kind |-> "dict", value |-> "d"]}

InitServe ==
  \E reg \in {Registered(ServedRegistrations, Len(ServedRegistrations))} :
     /\ probe = [pc |-> "unused"]
     /\ routes = reg.routes
     /\ handler_meta = reg.handler_meta
     /\ middleware \in {<<>>, <<"M1">>}
     /\ app = NoApp
     /\ strict = FALSE
     /\ debug \in BOOLEAN
     /\ exch = IdleExch
     /\ last = NoCall
     /\ tasks = IdleTasks
     /\ composed = 0
     /\ lifespan = NoLifespan

\* task t has called a function that is not a coroutine function on the
\* event loop itself: the loop runs nothing else until it returns
Blocks(t) ==
  /\ tasks[t].pc = "running"
  /\ tasks[t].where = "loop"
  /\ ~HandlerTable[tasks[t].handler].is_coroutine

\* the event loop can run a step of task t
LoopFreeFor(t) == \A u \in Tasks \ {t} : ~Blocks(u)

\* BlazeAPI.__call__(scope, receive, send) in task t, up to the point where
\* _invoke awaits the handler
ServeCall(t, scope) ==
  \E chain \in {IF app.built THEN app.chain ELSE BuildApp(middleware)} :
     /\ tasks[t].pc \in {"idle", "done"}
     /\ LoopFreeFor(t)
     /\ app' = [built |-> TRUE, chain |-> chain]
     /\ composed' = IF app.built THEN composed ELSE Composing(composed)
     /\ tasks' = [tasks EXCEPT ![t] = Handle(scope, chain)]
     /\ last' = [op |-> "asgi", task |-> t]
     /\ UNCHANGED <<probe, routes, handler_meta, middleware, strict, debug,
                    exch, lifespan>>

\* the handler awaited by task t returns response and _handle sends it
ServeReturns(t, response) ==
  /\ tasks[t].pc = "running"
  /\ LoopFreeFor(t)
  /\ tasks' = [tasks EXCEPT ![t] = ReturnedIn(tasks[t], response)]
  /\ last' = [op |-> "returned", task |-> t]
  /\ UNCHANGED <<probe, routes, handler_meta, middleware, app, strict, debug,
                 exch, composed, lifespan>>

\* a failing exchange that also drops the cached chain
ServeRaisesDroppingChain(t, exc) ==
  /\ tasks[t].pc = "running"
  /\ LoopFreeFor(t)
  /\ tasks' = [tasks EXCEPT ![t] = RaisedIn(tasks[t], exc, TRUE)]
  /\ app' = NoApp
  /\ last' = [op |-> "raised", task |-> t]
  /\ UNCHANGED <<probe, routes, handler_meta, middleware, strict, debug,
                 exch, composed, lifespan>>

\* the handler awaited by task t raises exc
ServeRaises(t, exc) ==
  /\ tasks[t].pc = "running"
  /\ LoopFreeFor(t)
  /\ tasks' = [tasks EXCEPT ![t] = RaisedIn(tasks[t], exc, TRUE)]
  /\ last' = [op |-> "raised", task |-> t]
  /\ UNCHANGED <<probe, routes, handler_meta, middleware, app, strict, debug,
                 exch, composed, lifespan>>

NextServe ==
  \/ \E t \in Tasks, scope \in ServeScopes : ServeCall(t, scope)
  \/ \E t \in Tasks, response \in ServeReturnValues : ServeReturns(t, response)
  \/ \E t \in Tasks : ServeRaises(t, "RuntimeError")

SpecServe == InitServe /\ [][NextServe]_vars

(***************************************************************************)
(* Properties of a single Route (SpecMatch).                               *)
(***************************************************************************)
\* the positions of template t at which a placeholder starts
PlaceholderStarts(t) == {i \in DOMAIN t : PlaceholderAt(t, i).found}

\* t is: literal text, one placeholder of type type_name, literal text
SinglePlaceholder(t, type_name) ==
  /\ Cardinality(PlaceholderStarts(t)) = 1
  /\ \A i \in PlaceholderStarts(t) :
       PlaceholderAt(t, i).typed /\ PlaceholderAt(t, i).type_name = type_name

TheStart(t) == CHOOSE i \in PlaceholderStarts(t) : TRUE

LiteralBefore(t) == Slice(t, 1, TheStart(t) - 1)

LiteralAfter(t) == Slice(t, PlaceholderAt(t, TheStart(t)).end, Len(t))

TheName(t) == PlaceholderAt(t, TheStart(t)).name

\* p is LiteralBefore(t), some segment, LiteralAfter(t)
HasShape(p, t) ==
  LET b == LiteralBefore(t)
      a == LiteralAfter(t)
  IN /\ Len(p) >= Len(b) + Len(a)
     /\ Slice(p, 1, Len(b)) = b
     /\ Slice(p, Len(p) - Len(a) + 1, Len(p)) = a

SegmentOf(p, t) == Slice(p, Len(LiteralBefore(t)) + 1, Len(p) - Len(LiteralAfter(t)))

\* an optional '-' followed by one or more digits
IntSegment(seg) ==
  \E k \in {0, 1} :
    /\ Len(seg) > k
    /\ k = 1 => seg[1] = "-"
    /\ \A i \in (k + 1)..Len(seg) : seg[i] \in Digit

RECURSIVE Horner(_, _, _)
Horner(seg, i, acc) ==
  IF i > Len(seg) THEN acc ELSE Horner(seg, i + 1, 10 * acc + DigitVal(seg[i]))

\* the integer an IntSegment denotes
IntValue(seg) ==
  IF seg[1] = "-" THEN 0 - Horner(seg, 2, 0) ELSE Horner(seg, 1, 0)

\* C5: for every template with a single {name:int} placeholder, a path
\* whose placeholder segment is an optional '-' followed by one or more
\* digits matches and yields that integer; a segment of any other form
\* yields no match.
C5_IntSegmentDecides ==
  (/\ probe.pc = "matched"
   /\ SinglePlaceholder(probe.template, tInt)
   /\ HasShape(probe.path, probe.template))
    => LET seg == SegmentOf(probe.path, probe.template)
       IN IF IntSegment(seg)
          THEN /\ probe.result.found
               /\ probe.result.params[TheName(probe.template)]
                    = [t |-> "int", v |-> IntValue(seg)]
          ELSE ~probe.result.found

\* t ends in a {name:path} placeholder, its only placeholder
EndsInPathPlaceholder(t) ==
  /\ SinglePlaceholder(t, tPath)
  /\ LiteralAfter(t) = <<>>

\* C6: for every template ending in a {name:path} placeholder the
\* placeholder receives, unchanged, every character of the path after the
\* literal prefix, '/' characters included.
C6_PathReceivesRest ==
  (/\ probe.pc = "matched"
   /\ EndsInPathPlaceholder(probe.template)
   /\ probe.result.found)
    => probe.result.params[TheName(probe.template)]
         = [t |-> "str",
            v |-> Slice(probe.path, Len(LiteralBefore(probe.template)) + 1,
                        Len(probe.path))]

RECURSIVE Rebuild(_, _, _)
\* the literal runs and the captures of a match, concatenated in order
Rebuild(parts, k, groups) ==
  IF k > Len(parts) THEN <<>>
  ELSE (IF parts[k].kind = "lit" THEN parts[k].text ELSE groups[parts[k].name])
         \o Rebuild(parts, k + 1, groups)

\* C7: Route.match is a full-string match: when it returns parameters, the
\* whole path is the template's literal runs and placeholder captures and
\* nothing else, so no path with an extra trailing character matches.
C7_FullStringMatch ==
  (probe.pc = "matched" /\ probe.result.found)
    => Rebuild(probe.made.route.pattern, 1,
               MatchParts(probe.made.route.pattern, 1, probe.path, 1).groups)
         = probe.path

(***************************************************************************)
(* Properties of the Router (SpecRouter).                                  *)
(***************************************************************************)
\* the routes a lookup of (method, path) may return: same method, the
\* letter case set aside, and a pattern that matches the path
Candidates(method, path) ==
  {i \in DOMAIN routes :
     /\ routes[i].method = Upper(method)
     /\ RouteMatch(routes[i], path).found}

\* C1: Router.match returns the earliest registered route whose method is
\* the requested one and whose pattern matches the path, with that route's
\* converted parameters, and returns None exactly when there is no such
\* route.
C1_FirstMatchWins ==
  last.op = "match"
    => LET cands == Candidates(last.method, last.path)
       IN /\ last.result.found <=> cands # {}
          /\ cands # {} =>
               /\ \A i \in cands : last.result.index <= i
               /\ last.result.index \in cands
               /\ last.result.params
                    = RouteMatch(routes[last.result.index], last.path).params

\* two routes can serve the lookup and the earlier one was returned
C1_Witness ==
  /\ last.op = "match"
  /\ Cardinality(Candidates(last.method, last.path)) = 2
  /\ last.result.found
  /\ last.result.index = 1
  /\ routes[1].handler # routes[2].handler
  /\ DOMAIN last.result.params # {}

\* C2: methods are compared with the letter case set aside, at registration
\* and at lookup: a route registered with method R can be returned for a
\* lookup with method M only if upper(R) = upper(M), and is a candidate
\* whenever upper(R) = upper(M).
C2_MethodCaseInsensitive ==
  /\ (last.op = "add_route" /\ last.error = "none")
       => /\ Len(routes) > 0
          /\ routes[Len(routes)].method = Upper(last.method)
  /\ last.op = "match"
       => /\ last.result.found
               => routes[last.result.index].method = Upper(last.method)
          /\ (\E i \in DOMAIN routes :
                /\ Upper(routes[i].method) = Upper(last.method)
                /\ RouteMatch(routes[i], last.path).found)
               => last.result.found

\* a lower-case lookup returned a route stored in upper case while a route
\* of another method on the same path was passed over
C2_Witness ==
  /\ last.op = "match"
  /\ last.method = <<"g","e","t">>
  /\ last.result.found
  /\ last.result.index = 2
  /\ routes[1].method = mPOST
  /\ routes[1].path = routes[2].path

(***************************************************************************)
(* Properties of the application (Spec).                                   *)
(***************************************************************************)
\* the type tokens of template t that are no key of _PARAM_TYPES
UnknownTokens(t) ==
  {PlaceholderAt(t, i).type_name : i \in PlaceholderStarts(t)}
    \ {tStr, tInt, tFloat, tUuid, tPath}

HasUnknownType(t) == UnknownTokens(t) # {}

\* template t uses one parameter name in two placeholders
HasDuplicateName(t) ==
  \E i, j \in PlaceholderStarts(t) :
    i # j /\ PlaceholderAt(t, i).name = PlaceholderAt(t, j).name

\* no route the Router holds has an unknown type token, and no exchange
\* ended in the compiler's error
NeverDeferred ==
  /\ \A i \in DOMAIN routes : ~HasUnknownType(routes[i].path)
  /\ exch.pc = "done" => exch.raised # "ValueError"

\* C3 as stated: a template with an unknown type token always fails inside
\* the registration call with an error naming the unknown token, and the
\* failure is never deferred to a lookup or a request.
C3_UnknownTypeNamed ==
  /\ (last.op = "register" /\ HasUnknownType(last.path))
       => /\ last.error = "ValueError"
          /\ last.token \in UnknownTokens(last.path)
  /\ NeverDeferred

\* C3 amended: a template with an unknown type token always fails inside
\* the registration call; the error names the unknown token whenever the
\* call reaches the pattern compiler, and otherwise it is the error of the
\* strict-mode check of the handler, which runs first; the failure is never
\* deferred to a lookup or a request.
C3_UnknownTypeFailsRegistration ==
  /\ (last.op = "register" /\ HasUnknownType(last.path))
       => /\ last.error # "none"
          /\ last.stage \in {"validate", "compile"}
          /\ last.stage = "compile"
               => /\ last.error = "ValueError"
                  /\ last.token \in UnknownTokens(last.path)
          /\ last.stage = "validate" => strict /\ last.error = "TypeError"
  /\ NeverDeferred

\* the compiler rejected "/{v:bogus}" while the application serves a route
C3_Witness ==
  /\ last.op = "register"
  /\ last.path = R_bogus
  /\ last.stage = "compile"
  /\ last.error = "ValueError"
  /\ last.token = <<"b","o","g","u","s">>
  /\ Len(routes) > 0

\* C4: a registration call that fails on the strict-mode check of the
\* handler or on a bad path template leaves the route list, the metadata
\* table, the middleware list and the cached chain as they were.
C4_FailedRegistrationChangesNothing ==
  [][(last'.op = "register" /\ last'.stage \in {"validate", "compile"})
       => UNCHANGED <<routes, handler_meta, middleware, app>>]_vars

\* a strict-mode rejection on an application that has routes, metadata and a
\* cached chain
C4_Witness ==
  /\ last.op = "register"
  /\ last.stage = "validate"
  /\ last.error = "TypeError"
  /\ Len(routes) > 0
  /\ DOMAIN handler_meta # {}
  /\ app.built

\* C8: a template that uses one parameter name in two placeholders is
\* rejected inside the registration call, nothing is appended, and the
\* Router never holds a route with such a template.
C8_DuplicateNameRejected ==
  /\ (last.op = "register" /\ HasDuplicateName(last.path))
       => /\ last.error # "none"
          /\ last.stage \in {"validate", "compile"}
  /\ \A i \in DOMAIN routes : ~HasDuplicateName(routes[i].path)

\* re.compile rejected "/{n}/{n}"
C8_Witness ==
  /\ last.op = "register"
  /\ last.path = R_dup
  /\ last.stage = "compile"
  /\ last.error = "re.error"

\* no route the Router holds is returned by Route.match and the method
\* comparison for the scope
NoRouteMatches(scope) ==
  \A i \in DOMAIN routes :
    \/ routes[i].method # Upper(scope.method)
    \/ ~RouteMatch(routes[i], scope.path).found

\* C9: an HTTP exchange for which no registered route matches the method
\* and path is answered with status 404 and the JSON body
\* {"detail": "Not Found"}; no handler is invoked and nothing is raised.
C9_NoMatchIs404 ==
  (exch.pc # "idle" /\ exch.scope.type = "http" /\ NoRouteMatches(exch.scope))
    => /\ exch.pc = "done"
       /\ exch.sent = <<[type |-> "http.response.start", status |-> 404,
                         media |-> "application/json"],
                        [type |-> "http.response.body",
                         body |-> [json |-> [detail |-> "Not Found"]]]>>
       /\ exch.handler = "none"
       /\ ~exch.invoked
       /\ exch.raised = "none"
       /\ exch.escaped = "none"

\* "/a" was requested with GET while "/{i:int}" is registered for GET
C9_Witness ==
  /\ exch.pc = "done"
  /\ exch.scope = [type |-> "http", method |-> mGET, path |-> <<"/","a">>]
  /\ \E i \in DOMAIN routes :
       routes[i].path = R_int /\ routes[i].method = mGET
  /\ Len(exch.sent) = 2
  /\ exch.sent[1].status = 404

C13_ExactlyOneResponse ==
  (exch.pc = "done" /\ exch.scope.type = "http")
    => /\ Cardinality({i \in DOMAIN exch.sent :
                         exch.sent[i].type = "http.response.start"}) = 1
       /\ exch.sent[1].type = "http.response.start"
       /\ \E i \in DOMAIN exch.sent : exch.sent[i].type = "http.response.body"

\* C14: the value a handler returned is sent by exactly one of three
\* branches: a Response as it is, with its own status; a dict or list
\* JSON-encoded with status 200 and the JSON content type; any other value
\* as a plain body holding its textual representation.
C14_ThreeWayNormalization ==
  (last.op = "returned")
    => /\ Len(exch.sent) = 2
       /\ exch.sent[1].type = "http.response.start"
       /\ exch.sent[2].type = "http.response.body"
       /\ (last.response.kind = "Response")
            => /\ exch.sent[1].status = last.response.status
               /\ exch.sent[2].body = last.response.body
       /\ (last.response.kind \in {"dict", "list"})
            => /\ exch.sent[1].status = 200
               /\ exch.sent[1].media = "application/json"
               /\ exch.sent[2].body = [json |-> last.response.value]
       /\ (last.response.kind \notin {"Response", "dict", "list"})
            => /\ exch.sent[1].status = 200
               /\ exch.sent[2].body = [bytes |-> Str(last.response)]

(***************************************************************************)
(* SpecChain: an application whose routes are registered before serving    *)
(* begins, to which middleware is added while it serves HTTP exchanges,    *)
(* one at a time, and the lifespan exchange.                               *)
(***************************************************************************)
\* the middleware factories of the test suite, each adding its own header
ChainMiddlewares == {"M1", "M2"}

\* GET /7, GET /
ChainScopes ==
  [type : {"http"}, method : {mGET}, path : {<<"/","7">>, <<"/">>}]

LifespanMessages == {"lifespan.startup", "lifespan.shutdown", "lifespan.other"}

\* message.get("headers", [])
Headers(message) ==
  IF "headers" \in DOMAIN message THEN message.headers ELSE <<>>

\* custom_send of the header-adding middleware mw, applied to message
CustomSend(mw, message) ==
  IF message.type = "http.response.start"
  THEN [headers |-> Append(Headers(message), mw)] @@ message
  ELSE message

RECURSIVE SentThrough(_, _)
\* what the server receives when _handle, wrapped by chain, sends msgs: a
\* message passes the custom_send of the innermost middleware first and
\* that of the outermost last
SentThrough(chain, msgs) ==
  IF chain = <<>> THEN msgs
  ELSE [i \in DOMAIN msgs |->
          CustomSend(chain[1], SentThrough(Tail(chain), msgs)[i])]

InitChain ==
  \E reg \in {Registered(ServedRegistrations, Len(ServedRegistrations))} :
     /\ probe = [pc |-> "unused"]
     /\ routes = reg.routes
     /\ handler_meta = reg.handler_meta
     /\ middleware = <<>>
     /\ app = NoApp
     /\ strict = FALSE
     /\ debug = FALSE
     /\ exch = IdleExch
     /\ last = NoCall
     /\ tasks = IdleTasks
     /\ composed = 0
     /\ lifespan = NoLifespan

\* app.add_middleware(mw) for a middleware that is not registered yet
ChainAddMiddleware(mw) ==
  /\ mw \notin Range(middleware)
  /\ AddMiddlewareUpTo(mw, Cardinality(ChainMiddlewares))

\* BlazeAPI.__call__ with a lifespan scope: _handle_lifespan starts and
\* awaits receive()
LifespanCall ==
  /\ lifespan.pc = "none"
  /\ lifespan' = [lifespan EXCEPT !.pc = "receiving"]
  /\ last' = [op |-> "lifespan"]
  /\ UNCHANGED <<probe, routes, handler_meta, middleware, app, strict, debug,
                 exch, tasks, composed>>

\* a responder that goes on receiving after the shutdown message
LifespanTurnStayingOpen(ls, message) ==
  IF message = "lifespan.startup"
  THEN [ls EXCEPT !.received = Append(ls.received, message),
                  !.sent = Append(ls.sent, "lifespan.startup.complete")]
  ELSE IF message = "lifespan.shutdown"
  THEN [ls EXCEPT !.received = Append(ls.received, message),
                  !.sent = Append(ls.sent, "lifespan.shutdown.complete")]
  ELSE [ls EXCEPT !.received = Append(ls.received, message)]

\* one turn of the loop of _handle_lifespan, on the message receive()
\* delivered
LifespanTurn(ls, message) ==
  IF message = "lifespan.startup"
  THEN [ls EXCEPT !.received = Append(ls.received, message),
                  !.sent = Append(ls.sent, "lifespan.startup.complete")]
  ELSE IF message = "lifespan.shutdown"
  THEN [ls EXCEPT !.pc = "returned",
                  !.received = Append(ls.received, message),
                  !.sent = Append(ls.sent, "lifespan.shutdown.complete")]
  ELSE [ls EXCEPT !.received = Append(ls.received, message)]

\* receive() delivers message to _handle_lifespan
LifespanReceive(message) ==
  /\ lifespan.pc = "receiving"
  /\ Len(lifespan.received) < MaxMessages
  /\ lifespan' = LifespanTurn(lifespan, message)
  /\ last' = [op |-> "lifespan"]
  /\ UNCHANGED <<probe, routes, handler_meta, middleware, app, strict, debug,
                 exch, tasks, composed>>

NextChain ==
  \/ \E mw \in ChainMiddlewares : ChainAddMiddleware(mw)
  \/ \E scope \in ChainScopes : AsgiCall(scope)
  \/ \E response \in ServeReturnValues : HandlerReturns(response)
  \/ LifespanCall
  \/ \E message \in LifespanMessages : LifespanReceive(message)

SpecChain == InitChain /\ [][NextChain]_vars

(***************************************************************************)
(* Properties of an application that serves several exchanges (SpecServe). *)
(***************************************************************************)
\* the step ends, in task t, an exchange whose handler raised
Failed(t) ==
  /\ tasks'[t] # tasks[t]
  /\ tasks'[t].pc = "done"
  /\ tasks'[t].raised # "none"

\* two completed exchanges with the same request and the same outcome of
\* the handler were sent the same messages
ResponsesDependOnEmptyMap ==
  \A t \in Tasks, u \in Tasks :
    (/\ tasks[t].pc = "done"
     /\ tasks[u].pc = "done"
     /\ tasks[t].scope = tasks[u].scope
     /\ tasks[t].invoked = tasks[u].invoked
     /\ tasks[t].raised = tasks[u].raised)
      => /\ tasks[t].sent = tasks[u].sent
         /\ tasks[t].escaped = tasks[u].escaped

\* C12 as stated: a request whose handler raises leaves the route list, the
\* handler-metadata table, the middleware list and the cached chain
\* unchanged, and leaves every other exchange as it was.
C12_FailureChangesNothing ==
  [][\A t \in Tasks :
       Failed(t)
         => /\ UNCHANGED <<routes, handler_meta, middleware, app>>
            /\ \A u \in Tasks \ {t} : tasks'[u] = tasks[u]]_vars

\* C12 amended: a request whose handler raises leaves the route list, the
\* handler-metadata table and the middleware list unchanged and leaves
\* every other exchange as it was; the cached chain is unchanged if there
\* was one, and otherwise it is now the chain composed from the unchanged
\* middleware list, as after any other request.  The response of an
\* exchange depends on its request and on what its handler did, not on the
\* failing requests served before it or beside it.
C12_FailureKeepsRegistrations ==
  /\ []ResponsesDependOnEmptyMap
  /\ [][\A t \in Tasks :
          Failed(t)
            => /\ UNCHANGED <<routes, handler_meta, middleware>>
               /\ app' = IF app.built THEN app
                         ELSE [built |-> TRUE, chain |-> BuildApp(middleware)]
               /\ \A u \in Tasks \ {t} : tasks'[u] = tasks[u]]_vars

\* task t1 ended with a handler that raised, and task t2 has then been
\* answered 200 by its own handler
C12_Witness ==
  /\ tasks["t1"].pc = "done"
  /\ tasks["t1"].raised = "RuntimeError"
  /\ tasks["t1"].sent[1].status = 500
  /\ last = [op |-> "returned", task |-> "t2"]
  /\ tasks["t2"].pc = "done"
  /\ tasks["t2"].sent[1].status = 200
  /\ app.built

\* the path parameters the Router resolved for exchange e
ResolvedParams(e) == RouterMatch(routes, e.scope.method, e.scope.path).params

\* the handler of exchange e has been called, or is about to be
Called(e) == e.pc # "idle" /\ (e.pc = "running" \/ e.invoked)

\* C15: the arguments passed to a handler are the converted value of every
\* resolved path parameter whose name the handler declares (other than
\* "request"), and the Request under "request" exactly when the handler
\* declares a parameter of that name; nothing else is passed.
C15_ExactArguments ==
  \A t \in Tasks :
    Called(tasks[t])
      => /\ DOMAIN tasks[t].kwargs
              = {n \in HandlerTable[tasks[t].handler].params \ {"request"} :
                   <<n>> \in DOMAIN ResolvedParams(tasks[t])}
                \cup (HandlerTable[tasks[t].handler].params \cap {"request"})
         /\ \A n \in DOMAIN tasks[t].kwargs :
              tasks[t].kwargs[n] = IF n = "request" THEN [t |-> "Request"]
                                   ELSE ResolvedParams(tasks[t])[<<n>>]

\* h4, which declares no parameter, runs for GET /a on the route "/{n}":
\* the resolved parameter n is not passed, and neither is the Request
C15_Witness ==
  /\ tasks["t1"].pc = "running"
  /\ tasks["t1"].handler = "h4"
  /\ DOMAIN ResolvedParams(tasks["t1"]) = {<<"n">>}
  /\ DOMAIN tasks["t1"].kwargs = {}
  /\ tasks["t2"].pc = "running"
  /\ tasks["t2"].handler = "h2"
  /\ tasks["t2"].kwargs["i"] = [t |-> "int", v |-> 7]
  /\ "request" \in DOMAIN tasks["t2"].kwargs

\* C16: a coroutine handler is called on the event loop, in the task that
\* dispatches; any other handler is run on the worker pool and never on
\* the loop, so the loop stays free for the other exchanges while it runs;
\* the dispatching task sends nothing before the handler has completed.
C16_BlockingHandlersOffLoop ==
  \A t \in Tasks :
    Called(tasks[t])
      => /\ HandlerTable[tasks[t].handler].is_coroutine
              => tasks[t].where = "loop"
         /\ ~HandlerTable[tasks[t].handler].is_coroutine
              => /\ tasks[t].where = "pool"
                 /\ \A u \in Tasks : LoopFreeFor(u)
         /\ tasks[t].pc = "running"
              => tasks[t].sent = <<>> /\ ~tasks[t].invoked
         /\ tasks[t].sent # <<>> => tasks[t].invoked

\* while the blocking handler h2 of task t1 runs on the worker pool, task
\* t2 has run a coroutine handler on the loop and has been answered
C16_Witness ==
  /\ tasks["t1"].pc = "running"
  /\ tasks["t1"].handler = "h2"
  /\ tasks["t1"].where = "pool"
  /\ last = [op |-> "returned", task |-> "t2"]
  /\ tasks["t2"].pc = "done"
  /\ tasks["t2"].handler = "h1"
  /\ tasks["t2"].where = "loop"
  /\ tasks["t2"].invoked

(***************************************************************************)
(* Properties of the middleware chain and of the lifespan exchange         *)
(* (SpecChain).                                                            *)
(***************************************************************************)
\* the place of mw in the order of registration
Position(mw) == CHOOSE i \in DOMAIN middleware : middleware[i] = mw

\* the headers of the response-start message the server receives for the
\* exchange e
WireHeaders(e) == Headers(SentThrough(e.chain, e.sent)[1])

\* C17: an HTTP request passes through the middleware outermost first in
\* the order of registration, and the response passes back in the reverse
\* order, so the header of every middleware of the chain is on the
\* response the server receives, the one of the first registered added
\* last.
C17_RegistrationOrderOutermostFirst ==
  (exch.pc # "idle")
    => /\ \A i \in DOMAIN exch.chain, j \in DOMAIN exch.chain :
            i < j => Position(exch.chain[i]) < Position(exch.chain[j])
       /\ (exch.pc = "done" /\ exch.sent # <<>>)
            => /\ Len(WireHeaders(exch)) = Len(exch.chain)
               /\ Range(WireHeaders(exch)) = Range(exch.chain)
               /\ \A i \in DOMAIN WireHeaders(exch),
                     j \in DOMAIN WireHeaders(exch) :
                    i < j => Position(WireHeaders(exch)[i])
                               > Position(WireHeaders(exch)[j])

\* M1 was registered before M2: the request went through M1, then M2,
\* then _handle, and the 200 response carries the header of M2 under that
\* of M1
C17_Witness ==
  /\ middleware = <<"M1", "M2">>
  /\ exch.pc = "done"
  /\ exch.chain = <<"M1", "M2">>
  /\ exch.sent[1].status = 200
  /\ WireHeaders(exch) = <<"M2", "M1">>

\* C18: the chain a request enters is composed of exactly the middleware
\* registered before it entered, and an add_middleware call leaves the
\* exchange in flight on the chain it started with.
C18_ChainIsCurrent ==
  [][((last'.op = "asgi" /\ exch.pc \in {"idle", "done"})
        => (/\ Len(exch'.chain) = Len(middleware)
            /\ Range(exch'.chain) = Range(middleware)))
     /\ ((last'.op = "add_middleware" /\ exch.pc = "running")
        => exch' = exch)]_vars

\* M2 was added while a request that entered through M1 alone is in flight
C18_Witness ==
  /\ last.op = "add_middleware"
  /\ middleware = <<"M1", "M2">>
  /\ exch.pc = "running"
  /\ exch.chain = <<"M1">>
  /\ ~app.built

\* _build_app has run at most once since the last add_middleware, and a
\* cached chain was composed by one run that called each registered
\* middleware once
AtMostOneComposition ==
  /\ composed <= 1
  /\ app.built
       => /\ composed = 1
          /\ Len(app.chain) = Len(middleware)
          /\ Range(app.chain) = Range(middleware)

\* C19: _build_app runs at most once between two add_middleware calls
\* however many HTTP requests are served, the cached chain holds each
\* registered middleware once, and the lifespan exchange composes nothing.
C19_ComposedOnce ==
  /\ []AtMostOneComposition
  /\ [][(lifespan' # lifespan) => UNCHANGED <<app, composed>>]_vars

\* a request has just been served on the chain of M1 and M2 that an
\* earlier request composed, after the lifespan exchange had started
C19_Witness ==
  /\ last = [op |-> "asgi", reused |-> TRUE]
  /\ composed = 1
  /\ app = [built |-> TRUE, chain |-> <<"M1", "M2">>]
  /\ exch.chain = <<"M1", "M2">>
  /\ lifespan.pc = "receiving"
  /\ Len(lifespan.sent) > 0

\* the messages of received that _handle_lifespan answers
Answered(received) ==
  LET IsAnswered(m) == m \in {"lifespan.startup", "lifespan.shutdown"}
  IN SelectSeq(received, IsAnswered)

\* what was sent answers, in order, the startup and shutdown messages
\* received; the responder has returned exactly when shutdown was
\* received, and shutdown is then the last message received
AcknowledgedInOrder ==
  /\ Len(lifespan.sent) = Len(Answered(lifespan.received))
  /\ \A i \in DOMAIN lifespan.sent :
       lifespan.sent[i]
         = IF Answered(lifespan.received)[i] = "lifespan.startup"
           THEN "lifespan.startup.complete"
           ELSE "lifespan.shutdown.complete"
  /\ (lifespan.pc = "returned")
       <=> ("lifespan.shutdown" \in Range(lifespan.received))
  /\ \A i \in DOMAIN lifespan.received :
       lifespan.received[i] = "lifespan.shutdown"
         => i = Len(lifespan.received)

\* C20: on the lifespan exchange every startup message is answered with
\* one startup-complete and the shutdown message with one
\* shutdown-complete, in the order received, and nothing else is sent; the
\* responder has returned exactly when a shutdown message was received,
\* and receives nothing after it; a step of the lifespan exchange touches
\* no route, metadata, middleware, chain or HTTP exchange.
C20_LifespanAcknowledged ==
  /\ []AcknowledgedInOrder
  /\ [][(lifespan' # lifespan)
          => UNCHANGED <<routes, handler_meta, middleware, app, composed,
                         exch, tasks>>]_vars

\* startup, another message and shutdown were received on an application
\* that holds a middleware and a cached chain: two acknowledgements were
\* sent and the responder returned
C20_Witness ==
  /\ lifespan.pc = "returned"
  /\ lifespan.received
       = <<"lifespan.startup", "lifespan.other", "lifespan.shutdown">>
  /\ lifespan.sent
       = <<"lifespan.startup.complete", "lifespan.shutdown.complete">>
  /\ last.op = "lifespan"
  /\ app.built
  /\ middleware # <<>>

(***************************************************************************)
(* Strict-mode validation (SpecValidate): validate_handler_signature of    *)
(* blazeapi/validation.py applied to one handler and one path template,    *)
(* followed by the registration of the same handler through a route        *)
(* decorator of an application that is strict or not.  An error message is *)
(* the sequence of its words; quotes, brackets and punctuation are words   *)
(* of their own, a method and a path are spelled by their characters.      *)
(***************************************************************************)
\* isinstance(tp, type): the classes among the annotations
IsType(tp) ==
  tp \in {"object", "dict", "list", "str", "int", "bool", "NoneType",
          "Response", "JSONResponse", "UserModel", "QueryModel"}

\* isinstance(ret, type) and issubclass(ret, Response)
IsResponse(tp) == IsType(tp) /\ tp \in {"Response", "JSONResponse"}

\* a check that takes no class for a BaseModel subclass
IsBaseModelNever(tp) == FALSE

\* _is_basemodel(tp)
IsBaseModel(tp) == IsType(tp) /\ tp \in {"UserModel", "QueryModel"}

RECURSIVE FindAll(_, _)
\* _PATH_PARAM_RE.findall(path) from position pos on: the names of the
\* placeholders {name} and {name:type}, whatever the type token
FindAll(path, pos) ==
  IF pos > Len(path) THEN {}
  ELSE LET Found(m) == IF m.found THEN {m.name} \cup FindAll(path, m.end)
                       ELSE FindAll(path, pos + 1)
       IN Found(PlaceholderAt(path, pos))

\* re.search(phrase, text) for a phrase of plain words, as pytest.raises
\* applies its match argument to the message of the exception
Search(phrase, text) ==
  \E i \in 0..(Len(text) - Len(phrase)) :
     SubSeq(text, i + 1, i + Len(phrase)) = phrase

\* repr(name) of a string
ReprStr(name) == <<"'", name, "'">>

\* the first line of every message of validate_handler_signature
ViolationHeader(name, method, path) ==
  <<"Strict-mode", "violation", "in", "handler", "'", name, "'", "[">>
    \o method \o path \o <<"]">>

Violation(rule, message) ==
  [error |-> "TypeError", rule |-> rule, message |-> message]

\* get_type_hints(func) and inspect.signature(func) on an object that is no
\* function
NotIntrospectable(func) ==
  [error |-> "TypeError", rule |-> 0,
   message |-> <<func, "is", "not", "a", "module", ",", "class", ",",
                 "method", ",", "or", "function", ".">>]

MissingReturn(name, method, path) ==
  Violation(1, ViolationHeader(name, method, path)
    \o <<"Problem:", "Missing", "return", "type", "annotation", ".",
         "Fix:", "Add", "a", "return", "type", ",", "e.g.", "->",
         "JSONResponse", "or", "->", "YourModel", ".",
         "Rules:", "Return", "type", "must", "be", "a", "Response",
         "subclass", "or", "BaseModel", "subclass", ".">>)

\* {ret.__name__ if isinstance(ret, type) else ret!r}: the conversion !r
\* applies to the whole expression
UnstructuredReturn(name, method, path, ret) ==
  Violation(2, ViolationHeader(name, method, path)
    \o <<"Current:", "->">>
    \o (IF IsType(ret) THEN ReprStr(ret) ELSE <<ret>>)
    \o <<"Problem:", "Return", "type", "must", "be", "a", "Response",
         "subclass", "or", "BaseModel", "subclass", ".",
         "Fix:", "Use", "->", "JSONResponse", ",", "->", "Response", ",",
         "or", "->", "YourModel", "(", "BaseModel", ")", ".",
         "Rejected", "types:", "dict", ",", "list", ",", "str", ",", "int",
         ",", "and", "other", "primitives", ".">>)

UntypedParameter(name, method, path, param_name) ==
  Violation(3, ViolationHeader(name, method, path)
    \o <<"Problem:", "Parameter", "'", param_name, "'", "has", "no", "type",
         "annotation", ".",
         "Fix:", "Add", "a", "type", "annotation", ",", "e.g.", param_name,
         ":", "int", "or", param_name, ":", "YourModel", ".">>)

\* type_label is hint.__name__ for a class and repr(hint) otherwise;
\* param_name.title() of a one-letter name is its upper-case letter
UnstructuredParameter(name, method, path, param_name, hint) ==
  Violation(4, ViolationHeader(name, method, path)
    \o <<"Current:", param_name, ":", hint,
         "Problem:", "Non-path", "parameter", "'", param_name, "'", "must",
         "be", "a", "BaseModel", "subclass", ".",
         "Fix:", "Wrap", "'", param_name, "'", "fields", "in", "a",
         "Pydantic", "model", ",", "e.g.", param_name, ":",
         UpperChar(param_name), "Model", ".",
         "Rejected", "types:", "dict", ",", "list", ",", "str", ",", "int",
         ",", "and", "other", "primitives", ".">>)

RECURSIVE ValidateParameters(_, _, _, _, _)
\* the loop over sig.parameters from the k-th parameter on
ValidateParameters(func, path, method, path_param_names, k) ==
  IF k > Len(HandlerTable[func].order)
  THEN [error |-> "none", rule |-> 0, message |-> <<>>]
  ELSE
    LET Rest == ValidateParameters(func, path, method, path_param_names, k + 1)
        Check(param_name, hints) ==
          IF param_name = "request" THEN Rest
          ELSE IF param_name \notin DOMAIN hints
          THEN UntypedParameter(func, method, path, param_name)
          ELSE IF <<param_name>> \in path_param_names THEN Rest
          ELSE IF ~IsBaseModel(hints[param_name])
          THEN UnstructuredParameter(func, method, path, param_name,
                                     hints[param_name])
          ELSE Rest
    IN Check(HandlerTable[func].order[k], HandlerTable[func].hints)

\* validate_handler_signature(func, path, method): what it raises, and by
\* which rule; func.__name__ is the name the handler is listed under
ValidateHandlerSignature(func, path, method) ==
  LET Return(ret) ==
        IF ret = "missing" THEN MissingReturn(func, method, path)
        ELSE IF ~(IsResponse(ret) \/ IsBaseModel(ret))
        THEN UnstructuredReturn(func, method, path, ret)
        ELSE ValidateParameters(func, path, method, FindAll(path, 1), 1)
  IN IF ~HandlerTable[func].introspectable THEN NotIntrospectable(func)
     ELSE Return(HandlerTable[func].ret)

\* the message of the TypeError _validate_return_type(handler) raises, or
\* <<>> when it raises none; {name!r} and {ret!r} are reprs
ValidateReturnTypeMessage(handler) ==
  LET Message(ret) ==
        IF ret = "missing"
        THEN <<"Handler">> \o ReprStr(handler)
               \o <<"must", "have", "a", "return", "type", "annotation",
                    "in", "strict", "mode">>
        ELSE IF ~IsResponse(ret)
        THEN <<"Handler">> \o ReprStr(handler)
               \o <<"return", "type", "must", "be", "Response", "or", "a",
                    "subclass", ",", "got">>
               \o (IF IsType(ret) THEN <<"<class">> \o ReprStr(ret) \o <<">">>
                   ELSE <<ret>>)
        ELSE <<>>
  IN IF ~HandlerTable[handler].introspectable
     THEN NotIntrospectable(handler).message
     ELSE Message(HandlerTable[handler].ret)

\* "/x", "/u/{u}", "/u/{u:int}", "/{p}"
ValidatePaths ==
  {<<"/", "x">>,
   <<"/", "u", "/", "{", "u", "}">>,
   <<"/", "u", "/", "{", "u", ":">> \o tInt \o <<"}">>,
   <<"/", "{", "p", "}">>}

InitValidate ==
  /\ probe \in [pc : {"input"}, func : DOMAIN HandlerTable,
                path : ValidatePaths, method : {mGET},
                validation : {[error |-> "unknown", rule |-> 0,
                               message |-> <<>>]},
                registration : {[stage |-> "none", error |-> "unknown",
                                 message |-> <<>>]}]
  /\ routes = <<>>
  /\ handler_meta = EmptyMap
  /\ middleware = <<>>
  /\ app = NoApp
  /\ strict \in BOOLEAN
  /\ debug = FALSE
  /\ exch = IdleExch
  /\ last = NoCall
  /\ tasks = IdleTasks
  /\ composed = 0
  /\ lifespan = NoLifespan

\* validate_handler_signature(func, path, method)
ValidateCall ==
  /\ probe.pc = "input"
  /\ probe' = [probe EXCEPT
                 !.pc = "validated",
                 !.validation = ValidateHandlerSignature(probe.func, probe.path,
                                                         probe.method)]
  /\ UNCHANGED appVars

\* app.get(path)(func) on the new application
DecoratorCall ==
  \E d \in {RouteDecorator(routes, handler_meta, strict, probe.method,
                           probe.path, probe.func)} :
     /\ probe.pc = "validated"
     /\ routes' = d.routes
     /\ handler_meta' = d.handler_meta
     /\ probe' = [probe EXCEPT
                    !.pc = "registered",
                    !.registration =
                       [stage |-> d.stage, error |-> d.error,
                        message |-> IF d.stage = "validate"
                                    THEN ValidateReturnTypeMessage(probe.func)
                                    ELSE <<>>]]
     /\ last' = [op |-> "register", path |-> probe.path, stage |-> d.stage,
                 error |-> d.error, token |-> d.token]
     /\ UNCHANGED <<middleware, app, strict, debug, exch, tasks, composed,
                    lifespan>>

NextValidate == ValidateCall \/ DecoratorCall

SpecValidate == InitValidate /\ [][NextValidate]_vars

(***************************************************************************)
(* Claims about strict-mode validation (SpecValidate).                     *)
(***************************************************************************)
\* the call of validate_handler_signature has been made
Validated == probe.pc \in {"validated", "registered"}

\* the handler is a function whose return annotation is one the
\* repository's tests use for handlers they expect to pass: None, a
\* Response class or a model class
ReturnsAsTested(func) ==
  /\ HandlerTable[func].introspectable
  /\ Declarations[func].returns
       \in {"None", "Response", "JSONResponse", "UserModel", "QueryModel"}

\* the declared parameters of func other than request, in order
OwnParameters(func) ==
  SelectSeq(Declarations[func].order, LAMBDA p : p # "request")

\* the parameter is one the rules take: annotated, and either named by a
\* placeholder of the path or annotated with a model class
ParameterConforms(func, path, p) ==
  /\ p \in DOMAIN Declarations[func].annotations
  /\ \/ \E i \in DOMAIN path : /\ PlaceholderAt(path, i).found
                               /\ PlaceholderAt(path, i).name = <<p>>
     \/ Declarations[func].annotations[p] \in {"UserModel", "QueryModel"}

(***************************************************************************)
(* C21: in strict mode a handler without a return annotation always fails  *)
(* registration with an error that names the handler and holds the text    *)
(* "Missing return type annotation", in validate_handler_signature and     *)
(* through a route decorator of a strict application alike.                *)
(***************************************************************************)
C21_MissingReturnNamed ==
  (/\ HandlerTable[probe.func].introspectable
   /\ Declarations[probe.func].returns = "missing")
  => /\ Validated
        => /\ probe.validation.error = "TypeError"
           /\ Search(ReprStr(probe.func), probe.validation.message)
           /\ Search(<<"Missing", "return", "type", "annotation">>,
                     probe.validation.message)
     /\ (probe.pc = "registered" /\ strict)
        => /\ probe.registration.error = "TypeError"
           /\ routes = <<>>
           /\ Search(ReprStr(probe.func), probe.registration.message)
           /\ Search(<<"Missing", "return", "type", "annotation">>,
                     probe.registration.message)

C23_UntypedParameterNamed ==
  (/\ Validated
   /\ ReturnsAsTested(probe.func)
   /\ OwnParameters(probe.func) # <<>>
   /\ OwnParameters(probe.func)[1] \notin DOMAIN Declarations[probe.func].annotations)
  => /\ probe.validation.error = "TypeError"
     /\ Search(ReprStr(OwnParameters(probe.func)[1]), probe.validation.message)
     /\ Search(<<"no", "type", "annotation">>, probe.validation.message)

(***************************************************************************)
(* C24: typed parameters are decided by name.  A handler that has own      *)
(* parameters, all annotated, and a return annotation the tests use,       *)
(* is accepted if and only if each own parameter is named by a placeholder *)
(* of the path or annotated with a model class; when it is rejected the    *)
(* error says "must be a BaseModel subclass" of a parameter that is        *)
(* neither.                                                                *)
(***************************************************************************)
C24_TypedParametersDecidedByName ==
  (/\ Validated
   /\ ReturnsAsTested(probe.func)
   /\ OwnParameters(probe.func) # <<>>
   /\ \A p \in Range(OwnParameters(probe.func)) :
         p \in DOMAIN Declarations[probe.func].annotations)
  => IF \A p \in Range(OwnParameters(probe.func)) :
           ParameterConforms(probe.func, probe.path, p)
     THEN probe.validation.error = "none"
     ELSE /\ probe.validation.error = "TypeError"
          /\ \E p \in Range(OwnParameters(probe.func)) :
                /\ ~ParameterConforms(probe.func, probe.path, p)
                /\ Search(<<"parameter">> \o ReprStr(p)
                            \o <<"must", "be", "a", "BaseModel", "subclass">>,
                          probe.validation.message)

(***************************************************************************)
(* C25: validate_handler_signature raises nothing for a handler declared   *)
(* -> None whose parameters are request, typed path parameters and         *)
(* model-typed other parameters: (request, user_id: int) on                *)
(* /users/{user_id} and /users/{user_id:int}, (request, query: QueryModel) *)
(* on /x, (request, user_id: int, data: UserModel) on /users/{user_id:int}.*)
(***************************************************************************)
C25_NoneReturningHandlersAccepted ==
  (/\ Validated
   /\ HandlerTable[probe.func].introspectable
   /\ Declarations[probe.func].returns = "None"
   /\ \A p \in Range(OwnParameters(probe.func)) :
         ParameterConforms(probe.func, probe.path, p))
  => probe.validation.error = "none"

(***************************************************************************)
(* C26: a route decorator of a strict application accepts a handler if and *)
(* only if validate_handler_signature accepts it on the same path, and a   *)
(* decorator of an application that is not strict validates nothing.       *)
(***************************************************************************)
C26_DecoratorEnforcesFullRuleSet ==
  probe.pc = "registered"
  => IF strict
     THEN (probe.registration.error = "none") <=> (probe.validation.error = "none")
     ELSE probe.registration.stage # "validate"

(***************************************************************************)
(* Request.body of thrustly/request.py (SpecBody): one Request, owned by   *)
(* the task of its exchange, on which body() is called again and again;    *)
(* every await of receive() is a step.  Bytes are sequences of characters. *)
(* probe holds the Request (body is _body, unset while it is None), the    *)
(* chunks of the call in progress, the number of receive() calls made on   *)
(* the transport, the number of body() calls completed, and what the first *)
(* and the latest of them returned.                                        *)
(***************************************************************************)
\* message.get(key, default)
Get(message, key, default) ==
  IF key \in DOMAIN message THEN message[key] ELSE default

\* the messages receive() delivers: http.request with or without its body
\* and more_body keys, and http.disconnect
BodyMessages ==
  [type : {"http.request"}, body : {<<>>, <<"a">>, <<"b">>, <<"b", "c">>},
   more_body : BOOLEAN]
    \cup [type : {"http.request"}, body : {<<"a">>}]
    \cup [type : {"http.request"}, more_body : {TRUE}]
    \cup {[type |-> "http.disconnect"]}

RECURSIVE Join(_)
\* b"".join(chunks)
Join(chunks) ==
  IF chunks = <<>> THEN <<>> ELSE Head(chunks) \o Join(Tail(chunks))

InitBody ==
  /\ probe = [pc |-> "idle", body |-> [set |-> FALSE, bytes |-> <<>>],
              chunks |-> <<>>, receives |-> 0, calls |-> 0,
              first |-> <<>>, result |-> <<>>]
  /\ AppInit

\* a body() that takes an empty cached body for no body
BodyCallTestingTruth ==
  /\ probe.pc = "idle"
  /\ probe.calls < MaxMessages
  /\ probe' = IF probe.body.set /\ probe.body.bytes # <<>>
              THEN [probe EXCEPT !.calls = @ + 1, !.result = probe.body.bytes]
              ELSE [probe EXCEPT !.pc = "reading", !.chunks = <<>>]
  /\ UNCHANGED appVars

\* await request.body(), up to its return of the cached bytes or to its
\* first await of receive()
BodyCall ==
  /\ probe.pc = "idle"
  /\ probe.calls < MaxMessages
  /\ probe' = IF probe.body.set
              THEN [probe EXCEPT !.calls = @ + 1, !.result = probe.body.bytes]
              ELSE [probe EXCEPT !.pc = "reading", !.chunks = <<>>]
  /\ UNCHANGED appVars

\* receive() delivers message to the body() call in progress, which goes
\* round its loop once and, after the last message, stores and returns the
\* joined chunks
BodyReceive(message) ==
  \E chunks \in {IF Get(message, "body", <<>>) # <<>>
                 THEN Append(probe.chunks, Get(message, "body", <<>>))
                 ELSE probe.chunks} :
     /\ probe.pc = "reading"
     /\ probe.receives < MaxMessages
     /\ probe' = IF Get(message, "more_body", FALSE)
                 THEN [probe EXCEPT !.chunks = chunks, !.receives = @ + 1]
                 ELSE [probe EXCEPT
                         !.pc = "idle", !.chunks = <<>>, !.receives = @ + 1,
                         !.body = [set |-> TRUE, bytes |-> Join(chunks)],
                         !.calls = @ + 1,
                         !.first = IF probe.calls = 0 THEN Join(chunks) ELSE @,
                         !.result = Join(chunks)]
     /\ UNCHANGED appVars

NextBody == BodyCall \/ \E message \in BodyMessages : BodyReceive(message)

SpecBody == InitBody /\ [][NextBody]_vars

(***************************************************************************)
(* C27: Request.body() is idempotent after the first full read.  Once a    *)
(* body() call has completed, every later body() call on the Request       *)
(* returns at once, with the bytes the first call returned, and no         *)
(* receive() is made on the transport again; so too when those bytes are   *)
(* empty.                                                                  *)
(***************************************************************************)
C27_BodyIdempotent ==
  [][(probe.calls >= 1)
     => (/\ probe'.pc = "idle"
         /\ probe'.receives = probe.receives
         /\ probe'.body = probe.body
         /\ probe'.result = probe.first)]_vars

\* the body read was empty, and body() has been called again after it
C27_Witness ==
  /\ probe.pc = "idle"
  /\ probe.calls >= 2
  /\ probe.body = [set |-> TRUE, bytes |-> <<>>]
  /\ probe.result = <<>>
  /\ probe.receives = 1

(***************************************************************************)
(* C28: every route of the router's route list has a handler-metadata      *)
(* entry for its handler, whatever registration calls were made and        *)
(* however they ended, and no dispatch fails for lack of metadata (the     *)
(* KeyError of self._handler_meta[handler] in _invoke).                    *)
(***************************************************************************)
C28_EveryRouteHasMetadata ==
  /\ \A i \in DOMAIN routes : routes[i].handler \in DOMAIN handler_meta
  /\ exch.pc = "done" => exch.raised # "KeyError"

(***************************************************************************)
(* C29: an exchange whose scope type is not http goes to the minimal       *)
(* responder and to nothing else: no middleware runs, no route is matched, *)
(* no handler is invoked and no HTTP response message is sent.             *)
(***************************************************************************)
C29_NonHttpTouchesNothing ==
  (exch.pc = "done" /\ exch.scope.type # "http")
  => /\ exch.chain = <<>>
     /\ exch.handler = "none"
     /\ ~exch.invoked
     /\ exch.sent = <<>>

(***************************************************************************)
(* add_middleware on a worker thread against __call__ on the event loop    *)
(* thread (SpecRace): the statements of both are steps, and the threads    *)
(* take turns in any order.  exch holds where __call__ stands for the      *)
(* request that is entering: local is the chain _build_app returned and    *)
(* that is not stored yet, chain the chain the request ran through.        *)
(* probe.adder tells whether add_middleware stands between its append and  *)
(* its reset of _app.                                                      *)
(***************************************************************************)
InitRace ==
  /\ probe = [pc |-> "race", adder |-> "idle"]
  /\ routes = <<>>
  /\ handler_meta = EmptyMap
  /\ middleware \in {<<>>, <<"M1">>}
  /\ app = NoApp
  /\ strict = FALSE
  /\ debug = FALSE
  /\ exch = [pc |-> "idle", scope |-> "none", local |-> <<>>, chain |-> <<>>,
             raised |-> "none"]
  /\ last = NoCall
  /\ tasks = IdleTasks
  /\ composed = 0
  /\ lifespan = NoLifespan

\* __call__: if self._app is None
CallTest(scope) ==
  /\ exch.pc \in {"idle", "done", "failed"}
  /\ exch' = [pc |-> IF app.built THEN "call" ELSE "build", scope |-> scope,
              local |-> <<>>, chain |-> <<>>, raised |-> "none"]
  /\ UNCHANGED <<probe, routes, handler_meta, middleware, app, strict, debug,
                 last, tasks, composed, lifespan>>

\* __call__: self._build_app(), its result not yet stored
CallBuild ==
  /\ exch.pc = "build"
  /\ exch' = [exch EXCEPT !.pc = "store", !.local = BuildApp(middleware)]
  /\ UNCHANGED <<probe, routes, handler_meta, middleware, app, strict, debug,
                 last, tasks, composed, lifespan>>

\* __call__: self._app = ...
CallStore ==
  /\ exch.pc = "store"
  /\ app' = [built |-> TRUE, chain |-> exch.local]
  /\ exch' = [exch EXCEPT !.pc = "call"]
  /\ UNCHANGED <<probe, routes, handler_meta, middleware, strict, debug,
                 last, tasks, composed, lifespan>>

\* __call__: await self._app(scope, receive, send), which reads self._app
\* again; calling None raises TypeError
CallChain ==
  /\ exch.pc = "call"
  /\ exch' = IF app.built
             THEN [exch EXCEPT !.pc = "done", !.chain = app.chain]
             ELSE [exch EXCEPT !.pc = "failed", !.raised = "TypeError"]
  /\ UNCHANGED <<probe, routes, handler_meta, middleware, app, strict, debug,
                 last, tasks, composed, lifespan>>

\* add_middleware: self._middleware.append(middleware)
AdderAppend(mw) ==
  /\ probe.adder = "idle"
  /\ Len(middleware) <= MaxMiddleware
  /\ mw \notin Range(middleware)
  /\ middleware' = Append(middleware, mw)
  /\ probe' = [probe EXCEPT !.adder = "appended"]
  /\ UNCHANGED <<routes, handler_meta, app, strict, debug, exch, last, tasks,
                 composed, lifespan>>

\* add_middleware: self._app = None
AdderReset ==
  /\ probe.adder = "appended"
  /\ app' = NoApp
  /\ probe' = [probe EXCEPT !.adder = "idle"]
  /\ UNCHANGED <<routes, handler_meta, middleware, strict, debug, exch, last,
                 tasks, composed, lifespan>>

NextRace ==
  \/ \E scope \in ChainScopes : CallTest(scope)
  \/ CallBuild
  \/ CallStore
  \/ CallChain
  \/ \E mw \in ChainMiddlewares \cup {"M3"} : AdderAppend(mw)
  \/ AdderReset

SpecRace == InitRace /\ [][NextRace]_vars

\* the chains composed from the middleware list as it is or as it was
\* before the latest registrations
OldOrNewChains ==
  {BuildApp(SubSeq(middleware, 1, n)) : n \in 0..Len(middleware)}

(***************************************************************************)
(* C30: while add_middleware runs on another thread, a request entering    *)
(* the application always runs through a fully composed chain, the old one *)
(* or the new one, and never finds the chain absent.                       *)
(***************************************************************************)
C30_ChainNeverTorn ==
  /\ exch.pc # "failed"
  /\ exch.pc = "done" => exch.chain \in OldOrNewChains

(***************************************************************************)
(* Request.body of thrustly/request.py with calls that overlap             *)
(* (SpecOverlap): two body() calls on one Request, each of which may start *)
(* while the other is suspended in its await of receive().  probe holds    *)
(* the Request's _body and the messages the transport has delivered, in    *)
(* arrival order; tasks holds, for each call, where it stands, the chunks  *)
(* it has collected and what it returned.                                  *)
(***************************************************************************)
OverlapMessages ==
  [type : {"http.request"}, body : {<<>>, <<"a">>, <<"b">>},
   more_body : BOOLEAN]
    \cup {[type |-> "http.disconnect"]}

InitOverlap ==
  /\ probe = [pc |-> "overlap", body |-> [set |-> FALSE, bytes |-> <<>>],
              delivered |-> <<>>]
  /\ routes = <<>>
  /\ handler_meta = EmptyMap
  /\ middleware = <<>>
  /\ app = NoApp
  /\ strict = FALSE
  /\ debug = FALSE
  /\ exch = IdleExch
  /\ last = NoCall
  /\ tasks = [t \in Tasks |-> [pc |-> "idle", chunks |-> <<>>, result |-> <<>>]]
  /\ composed = 0
  /\ lifespan = NoLifespan

\* the call t of request.body() starts: it returns the cached bytes, or
\* runs to its first await of receive()
OverlapCall(t) ==
  /\ tasks[t].pc = "idle"
  /\ tasks' = [tasks EXCEPT ![t] =
                 IF probe.body.set
                 THEN [pc |-> "done", chunks |-> <<>>,
                       result |-> probe.body.bytes]
                 ELSE [pc |-> "reading", chunks |-> <<>>, result |-> <<>>]]
  /\ UNCHANGED <<probe, routes, handler_meta, middleware, app, strict, debug,
                 exch, last, composed, lifespan>>

\* receive() delivers message to the call t, which goes round its loop
\* once and, after a message that ends the body, stores and returns the
\* chunks it has joined; once the body has ended the transport delivers
\* nothing but http.disconnect
OverlapReceive(t, message) ==
  \E chunks \in {IF Get(message, "body", <<>>) # <<>>
                 THEN Append(tasks[t].chunks, Get(message, "body", <<>>))
                 ELSE tasks[t].chunks} :
     /\ tasks[t].pc = "reading"
     /\ Len(probe.delivered) < MaxMessages
     /\ (\E i \in DOMAIN probe.delivered :
            ~Get(probe.delivered[i], "more_body", FALSE))
        => message.type = "http.disconnect"
     /\ IF Get(message, "more_body", FALSE)
        THEN /\ tasks' = [tasks EXCEPT ![t].chunks = chunks]
             /\ probe' = [probe EXCEPT !.delivered = Append(@, message)]
        ELSE /\ tasks' = [tasks EXCEPT ![t] = [pc |-> "done", chunks |-> <<>>,
                                                result |-> Join(chunks)]]
             /\ probe' = [probe EXCEPT
                            !.delivered = Append(@, message),
                            !.body = [set |-> TRUE, bytes |-> Join(chunks)]]
     /\ UNCHANGED <<routes, handler_meta, middleware, app, strict, debug,
                    exch, last, composed, lifespan>>

NextOverlap ==
  \/ \E t \in Tasks : OverlapCall(t)
  \/ \E t \in Tasks, message \in OverlapMessages : OverlapReceive(t, message)

SpecOverlap == InitOverlap /\ [][NextOverlap]_vars

RECURSIVE CompleteBody(_)
\* the chunks of the messages msgs, in arrival order, up to and including
\* the first message whose continuation flag is false
CompleteBody(msgs) ==
  IF msgs = <<>> THEN <<>>
  ELSE IF "more_body" \in DOMAIN Head(msgs) /\ Head(msgs).more_body
  THEN (IF "body" \in DOMAIN Head(msgs) THEN Head(msgs).body ELSE <<>>)
         \o CompleteBody(Tail(msgs))
  ELSE IF "body" \in DOMAIN Head(msgs) THEN Head(msgs).body ELSE <<>>

(***************************************************************************)
(* C31: every completed Request.body() call returns the complete body,     *)
(* the chunks in arrival order of all messages up to and including the     *)
(* first whose continuation flag is false, also when a second call starts  *)
(* while the first is suspended waiting for a chunk.  (That a message is   *)
(* consumed at most once is the transport's doing: receive() hands each    *)
(* message to one caller.)                                                 *)
(***************************************************************************)
C31_CompleteBodyUnderOverlap ==
  \A t \in Tasks :
     tasks[t].pc = "done" => tasks[t].result = CompleteBody(probe.delivered)

(***************************************************************************)
(* Thrustly beside BlazeAPI: the same registrations and the same inbound   *)
(* exchange, served by Thrustly.__call__.                                   *)
(***************************************************************************)
\* Thrustly.__call__(scope, receive, send): the chain is composed from
\* reversed(self._middleware) on every call, whatever the type of the
\* scope, and the exchange runs through it into _handle, which returns at
\* once for a scope that is not http
ThrustlyCall(scope) == Handle(scope, BuildApp(middleware))

\* what the server receives from Thrustly on a lifespan scope, whatever
\* receive() would deliver: _handle never awaits receive() and sends
\* nothing, and the middleware passes on what _handle sends
ThrustlyLifespanSent ==
  SentThrough(ThrustlyCall([type |-> "lifespan"]).chain,
              ThrustlyCall([type |-> "lifespan"]).sent)

\* C32: on the same registrations and the same inbound exchange Thrustly
\* and BlazeAPI emit the same send messages: an HTTP exchange BlazeAPI has
\* just dispatched stands where Thrustly's dispatch of the same scope
\* stands, through a chain of every registered middleware, and what
\* BlazeAPI has sent on the lifespan exchange (the acknowledgements of
\* startup and shutdown) is what Thrustly sends on it.
C32_ThrustlyEquivalentToBlazeAPI ==
  /\ (last.op = "asgi")
       => /\ exch = ThrustlyCall(exch.scope)
          /\ Range(exch.chain) = Range(middleware)
  /\ lifespan.sent = ThrustlyLifespanSent

\* the HTTP half of C32 alone
ThrustlyServesHttpAlike ==
  (last.op = "asgi")
    => /\ exch = ThrustlyCall(exch.scope)
       /\ Range(exch.chain) = Range(middleware)

====
